---- MODULE Spec2Model ----
(***************************************************************************)
(* A model of the AMQP 1.0 type-tagged codec of serialization.go.          *)
(*                                                                         *)
(* Byte streams are sequences of integers 0..255.  A reader is a           *)
(* bytes.Buffer (its content and read offset), optionally wrapped by the   *)
(* limitReader of the map decoder.  Every decoding function of the source  *)
(* is an operator from a reader to a record holding the advanced reader,   *)
(* the decoded value and the error; every encoding function is an operator *)
(* from a writer (the bytes written so far) to the extended writer and the *)
(* error.  Errors are strings, "" being Go's nil error.                    *)
(*                                                                         *)
(* Model integers are below 2^31; the inputs are chosen so that no decoded *)
(* integer exceeds that.  A value a function computes and then uses more   *)
(* than once is bound as the parameter of a local operator.                *)
(***************************************************************************)
EXTENDS Integers, Sequences, FiniteSets, TLC

VARIABLES
    pc,     \* position of the running operation
    arg,    \* the arguments the operation was called with
    r,      \* the caller's reader (and the limitReader wrapped around it)
    mr,     \* the mapReader of a running map decode
    wr,     \* the bytes written to the caller's writer
    err,    \* the error the operation returned ("" is nil)
    null,   \* the null result of unmarshal
    sinks,  \* the values the sinks of the operation point to
    calls,  \* the calls made so far to unmarshal a field or to a null handler
    local   \* the local variables of the running operation

vars == <<pc, arg, r, mr, wr, err, null, sinks, calls, local>>

-----------------------------------------------------------------------------
(* Type codes *)

typeCodeNull == 64
typeCodeBool == 86
typeCodeBoolTrue == 65
typeCodeBoolFalse == 66
typeCodeUbyte == 80
typeCodeUshort == 96
typeCodeUint == 112
typeCodeSmallUint == 82
typeCodeUint0 == 67
typeCodeUlong == 128
typeCodeSmallUlong == 83
typeCodeUlong0 == 68
typeCodeByte == 81
typeCodeShort == 97
typeCodeInt == 113
typeCodeSmallint == 84
typeCodeLong == 129
typeCodeSmalllong == 85
typeCodeFloat == 114
typeCodeDouble == 130
typeCodeDecimal32 == 116
typeCodeDecimal64 == 132
typeCodeDecimal128 == 148
typeCodeChar == 115
typeCodeTimestamp == 131
typeCodeUUID == 152
typeCodeVbin8 == 160
typeCodeVbin32 == 176
typeCodeStr8 == 161
typeCodeStr32 == 177
typeCodeSym8 == 163
typeCodeSym32 == 179
typeCodeList0 == 69
typeCodeList8 == 192
typeCodeList32 == 208
typeCodeMap8 == 193
typeCodeMap32 == 209
typeCodeArray8 == 224
typeCodeArray32 == 240
typeCodeOpen == 16
typeCodeBegin == 17
typeCodeEnd == 23

\* math.MaxUint8
MaxUint8 == 255

\* math.MaxUint32 is 65535 * 65536 + 65535, above the model's integers:
\* l < math.MaxUint32 is decided on the two 16-bit halves of l.
Half == 65536

LtMaxUint32(l) ==
    \/ l \div Half < Half - 1
    \/ l \div Half = Half - 1 /\ l % Half < Half - 1

-----------------------------------------------------------------------------
(* Errors *)

errNull == "error is null"
errInvalidLength == "length field is larger than frame"
errLimitReached == "limit reached"
EOF == "EOF"
ErrUnexpectedEOF == "unexpected EOF"

-----------------------------------------------------------------------------
(* Values.  k is the Go type, n an integer (or a time's seconds), ns a     *)
(* time's nanoseconds, s a byte string, m the entries of a map or the      *)
(* elements of a symbol array.                                             *)

Val(k, n, ns, s, m) == [k |-> k, n |-> n, ns |-> ns, s |-> s, m |-> m]
Nil == Val("nil", 0, 0, <<>>, <<>>)
IntV(k, n) == Val(k, n, 0, <<>>, <<>>)
BoolV(b) == Val("bool", IF b THEN 1 ELSE 0, 0, <<>>, <<>>)
StrV(k, s) == Val(k, 0, 0, s, <<>>)
TimeV(sec, nsec) == Val("time", sec, nsec, <<>>, <<>>)
MapV(k, m) == Val(k, 0, 0, <<>>, m)

\* The zero value of a Go type.
Zero(k) ==
    CASE k \in {"string", "Symbol", "bytes"} -> StrV(k, <<>>)
      [] k \in {"mapAnyAny", "mapStringAny", "mapSymbolAny", "symbols"} -> MapV(k, <<>>)
      [] k = "time" -> TimeV(0, 0)
      [] k = "any" -> Nil
      [] OTHER -> IntV(k, 0)

Min(a, b) == IF a < b THEN a ELSE b

\* The big-endian value of a byte string.
RECURSIVE BigEndian(_)
BigEndian(bs) ==
    IF bs = <<>> THEN 0
    ELSE BigEndian(SubSeq(bs, 1, Len(bs) - 1)) * 256 + bs[Len(bs)]

\* The w big-endian bytes of n (binary.Write of an unsigned integer).
RECURSIVE PutBigEndian(_, _)
PutBigEndian(n, w) ==
    IF w = 0 THEN <<>>
    ELSE Append(PutBigEndian(n \div 256, w - 1), n % 256)

-----------------------------------------------------------------------------
(* The reader: a bytes.Buffer, and the limitReader around it *)

Buffer(bs) == [buf |-> bs, off |-> 0, limited |-> FALSE, limit |-> 0, read |-> 0]

\* Len(): the limitReader embeds the reader, so Len is the buffer's.
RLen(rd) == Len(rd.buf) - rd.off

\* ReadByte(): promoted from the embedded reader, never limited.
ReadByte(rd) ==
    IF RLen(rd) = 0
    THEN [r |-> rd, b |-> 0, err |-> EOF]
    ELSE [r |-> [rd EXCEPT !.off = @ + 1], b |-> rd.buf[rd.off + 1], err |-> ""]

\* UnreadByte() after a successful ReadByte.
UnreadByte(rd) == [rd EXCEPT !.off = @ - 1]

\* bytes.Buffer.Read into a slice of k > 0 bytes.
BufferRead(rd, k) ==
    IF RLen(rd) = 0
    THEN [r |-> rd, n |-> 0, err |-> EOF]
    ELSE [r |-> [rd EXCEPT !.off = @ + Min(k, RLen(rd))],
          n |-> Min(k, RLen(rd)), err |-> ""]

\* limitReader.Read
limitReaderRead(rd, k) ==
    LET counted(u) == [r |-> [u.r EXCEPT !.read = @ + u.n], n |-> u.n, err |-> u.err]
    IN  IF rd.read >= rd.limit
        THEN [r |-> rd, n |-> 0, err |-> errLimitReached]
        ELSE counted(BufferRead(rd, k))

\* r.Read(p) with len(p) = k, dispatched on the reader's dynamic type.
Read(rd, k) == IF rd.limited THEN limitReaderRead(rd, k) ELSE BufferRead(rd, k)

\* io.ReadFull(r, buf) with len(buf) = k: Read until k bytes are there.
RECURSIVE ReadAtLeast(_, _, _)
ReadAtLeast(rd, k, n) ==
    LET after(u) ==
            IF u.err = ""
            THEN ReadAtLeast(u.r, k, n + u.n)
            ELSE [r |-> u.r, n |-> n + u.n,
                  err |-> IF n + u.n >= k THEN ""
                          ELSE IF n + u.n > 0 /\ u.err = EOF THEN ErrUnexpectedEOF
                          ELSE u.err]
    IN  IF n >= k
        THEN [r |-> rd, n |-> n, err |-> ""]
        ELSE after(Read(rd, k - n))

\* io.ReadFull and the bytes it read (from the buffer, starting at the offset).
ReadFull(rd, k) ==
    LET got(u) == [r |-> u.r, bs |-> SubSeq(rd.buf, rd.off + 1, rd.off + u.n), err |-> u.err]
    IN  got(ReadAtLeast(rd, k, 0))

\* binary.Read(r, binary.BigEndian, &n) of a w-byte unsigned integer;
\* n keeps its zero value when the read fails.
BinaryRead(rd, w) ==
    LET got(u) ==
            [r |-> u.r, bs |-> IF u.err = "" THEN u.bs ELSE [i \in 1..w |-> 0], err |-> u.err]
    IN  got(ReadFull(rd, w))

-----------------------------------------------------------------------------
(* Primitive decoders.  Each returns the advanced reader, the value and    *)
(* the error.                                                              *)

Ret(rd, v, e) == [r |-> rd, v |-> v, err |-> e]

\* The two's-complement value of a big-endian byte string (int8..int64,
\* and int(n) of a uint64 n).
Signed(bs) ==
    IF bs[1] >= 128
    THEN -(BigEndian([i \in 1..Len(bs) |-> 255 - bs[i]]) + 1)
    ELSE BigEndian(bs)

\* Go's integer division truncates toward zero.
TruncDiv(a, b) == IF a >= 0 THEN a \div b ELSE -((-a) \div b)

\* n % 1000 of the uint64 n held in a big-endian byte string: a string with
\* the top bit set is 2^64 + Signed(bs), and 2^64 % 1000 = 616.
Uint64Mod1000(bs) ==
    IF bs[1] >= 128 THEN (616 + (Signed(bs) % 1000)) % 1000
    ELSE BigEndian(bs) % 1000

\* A conversion that keeps the low byte only.
Unsigned_Mut(n) == Ret(n.r, BigEndian(n.bs) % 256, n.err)

\* return uint64(n), err
Unsigned(n) == Ret(n.r, BigEndian(n.bs), n.err)

\* return int(n), err
SignedInt(n) == Ret(n.r, Signed(n.bs), n.err)

\* n, err := r.ReadByte(); return uint64(n), err
ByteValue(n) == Ret(n.r, n.b, n.err)

readUint(rd) ==
    LET code(c) ==
            IF c.err # "" THEN Ret(c.r, 0, c.err)
            ELSE CASE c.b = typeCodeNull -> Ret(c.r, 0, errNull)
                   [] c.b \in {typeCodeUint0, typeCodeUlong0} -> Ret(c.r, 0, "")
                   [] c.b \in {typeCodeUbyte, typeCodeSmallUint, typeCodeSmallUlong} ->
                        ByteValue(ReadByte(c.r))
                   [] c.b = typeCodeUshort -> Unsigned(BinaryRead(c.r, 2))
                   [] c.b = typeCodeUint -> Unsigned(BinaryRead(c.r, 4))
                   [] c.b = typeCodeUlong -> Unsigned(BinaryRead(c.r, 8))
                   [] OTHER -> Ret(c.r, 0, "not a recognized number type")
    IN  code(ReadByte(rd))

\* The number of bytes of a fixed-width integer type code.
Width(b) ==
    CASE b \in {typeCodeByte, typeCodeSmallint, typeCodeSmalllong} -> 1
      [] b \in {typeCodeUshort, typeCodeShort} -> 2
      [] b \in {typeCodeUint, typeCodeInt} -> 4
      [] b \in {typeCodeUlong, typeCodeLong} -> 8

readInt(rd) ==
    LET code(c) ==
            IF c.err # "" THEN Ret(c.r, 0, c.err)
            ELSE CASE c.b \in {typeCodeUint0, typeCodeUlong0} -> Ret(c.r, 0, "")
                   [] c.b \in {typeCodeUbyte, typeCodeSmallUint, typeCodeSmallUlong} ->
                        ByteValue(ReadByte(c.r))
                   [] c.b \in {typeCodeUshort, typeCodeUint} ->
                        Unsigned(BinaryRead(c.r, Width(c.b)))
                   [] c.b \in {typeCodeUlong, typeCodeByte, typeCodeSmallint, typeCodeSmalllong,
                               typeCodeShort, typeCodeInt, typeCodeLong} ->
                        SignedInt(BinaryRead(c.r, Width(c.b)))
                   [] OTHER -> Ret(c.r, 0, "not a recognized number type")
    IN  code(ReadByte(rd))

readBool(rd) ==
    LET octet(n) == IF n.err # "" THEN Ret(n.r, FALSE, n.err) ELSE Ret(n.r, n.b # 0, "")
        code(c) ==
            IF c.err # "" THEN Ret(c.r, FALSE, c.err)
            ELSE CASE c.b = typeCodeNull -> Ret(c.r, FALSE, errNull)
                   [] c.b = typeCodeBool -> octet(ReadByte(c.r))
                   [] c.b = typeCodeBoolTrue -> Ret(c.r, TRUE, "")
                   [] c.b = typeCodeBoolFalse -> Ret(c.r, FALSE, "")
                   [] OTHER -> Ret(c.r, FALSE, "not a recognized bool type")
    IN  code(ReadByte(rd))

readTimestamp(rd) ==
    LET instant(n) ==
            Ret(n.r, TimeV(TruncDiv(Signed(n.bs), 1000), Uint64Mod1000(n.bs) * 1000000), n.err)
        code(c) ==
            IF c.err # "" THEN Ret(c.r, TimeV(0, 0), c.err)
            ELSE CASE c.b = typeCodeNull -> Ret(c.r, TimeV(0, 0), errNull)
                   [] c.b # typeCodeTimestamp -> Ret(c.r, TimeV(0, 0), "invalid type for timestamp")
                   [] OTHER -> instant(BinaryRead(c.r, 8))
    IN  code(ReadByte(rd))

\* make([]byte, n) filled by io.ReadFull(r, buf)
FillBuf(rd, n) ==
    LET filled(u) == Ret(u.r, [i \in 1..n |-> IF i <= Len(u.bs) THEN u.bs[i] ELSE 0], u.err)
    IN  filled(ReadFull(rd, n))

\* A length check that refuses a value that ends the frame.
readVariableType_Mut(rd, of) ==
    LET sized(x, n, e) ==
            IF e # "" THEN Ret(x, <<>>, e)
            ELSE IF n >= RLen(x) THEN Ret(x, <<>>, errInvalidLength)
            ELSE FillBuf(x, n)
        size8(n) == sized(n.r, n.b, n.err)
        size32(n) == sized(n.r, BigEndian(n.bs), n.err)
    IN  CASE of = typeCodeNull -> Ret(rd, <<>>, "")
          [] of \in {typeCodeVbin8, typeCodeStr8, typeCodeSym8} -> size8(ReadByte(rd))
          [] of \in {typeCodeVbin32, typeCodeStr32, typeCodeSym32} -> size32(BinaryRead(rd, 4))
          [] OTHER -> Ret(rd, <<>>, "not a recognized variable length type")

readVariableType(rd, of) ==
    LET sized(x, n, e) ==
            IF e # "" THEN Ret(x, <<>>, e)
            ELSE IF n > RLen(x) THEN Ret(x, <<>>, errInvalidLength)
            ELSE FillBuf(x, n)
        size8(n) == sized(n.r, n.b, n.err)
        size32(n) == sized(n.r, BigEndian(n.bs), n.err)
    IN  CASE of = typeCodeNull -> Ret(rd, <<>>, "")
          [] of \in {typeCodeVbin8, typeCodeStr8, typeCodeSym8} -> size8(ReadByte(rd))
          [] of \in {typeCodeVbin32, typeCodeStr32, typeCodeSym32} -> size32(BinaryRead(rd, 4))
          [] OTHER -> Ret(rd, <<>>, "not a recognized variable length type")

readString(rd) ==
    LET code(c) == IF c.err # "" THEN Ret(c.r, <<>>, c.err) ELSE readVariableType(c.r, c.b)
    IN  code(ReadByte(rd))

readBinary(rd) ==
    LET code(c) == IF c.err # "" THEN Ret(c.r, <<>>, c.err) ELSE readVariableType(c.r, c.b)
    IN  code(ReadByte(rd))

\* Returns the element count in v and the declared size in length.
HeaderRet(rd, elements, length, e) ==
    [r |-> rd, v |-> elements, length |-> length, err |-> e]

readHeaderSlice(rd) ==
    LET checked(x, elements, length) ==
            IF elements > RLen(x) THEN HeaderRet(x, 0, 0, errInvalidLength)
            ELSE HeaderRet(x, elements, length, "")
        elems8(lByte, elemByte) ==
            IF elemByte.err # "" THEN HeaderRet(elemByte.r, 0, 0, elemByte.err)
            ELSE checked(elemByte.r, elemByte.b, lByte.b)
        size8(lByte) ==
            IF lByte.err # "" THEN HeaderRet(lByte.r, 0, 0, lByte.err)
            ELSE elems8(lByte, ReadByte(lByte.r))
        elems32(l, elems) ==
            IF elems.err # "" THEN HeaderRet(elems.r, 0, 0, elems.err)
            ELSE checked(elems.r, BigEndian(elems.bs), BigEndian(l.bs))
        size32(l) ==
            IF l.err # "" THEN HeaderRet(l.r, 0, 0, l.err)
            ELSE elems32(l, BinaryRead(l.r, 4))
        code(c) ==
            IF c.err # "" THEN HeaderRet(c.r, 0, 0, c.err)
            ELSE CASE c.b = typeCodeNull -> HeaderRet(c.r, 0, 0, errNull)
                   [] c.b = typeCodeList0 -> HeaderRet(c.r, 0, 0, "")
                   [] c.b \in {typeCodeList8, typeCodeArray8} -> size8(ReadByte(c.r))
                   [] c.b \in {typeCodeList32, typeCodeArray32} -> size32(BinaryRead(c.r, 4))
                   [] OTHER -> HeaderRet(c.r, 0, 0, "not a recognized list type")
    IN  code(ReadByte(rd))

\* The loop of readSymbolArray: lElems payloads of type code b.
RECURSIVE readElems(_, _, _, _)
readElems(rd, b, lElems, strs) ==
    LET elem(vari) ==
            IF vari.err # "" THEN Ret(vari.r, <<>>, vari.err)
            ELSE readElems(vari.r, b, lElems - 1, Append(strs, vari.v))
    IN  IF lElems = 0 THEN Ret(rd, strs, "")
        ELSE elem(readVariableType(rd, b))

readSymbolArray(rd) ==
    LET code(h, b) ==
            IF b.err # "" THEN Ret(b.r, <<>>, b.err)
            ELSE readElems(b.r, b.b, h.v, <<>>)
        header(h) ==
            IF h.err # "" THEN Ret(h.r, <<>>, h.err)
            ELSE code(h, ReadByte(h.r))
    IN  header(readHeaderSlice(rd))

\* The value a reader returned, as an interface{} of Go type k.
AsAny(k, x) ==
    Ret(x.r,
        CASE k = "bool" -> BoolV(x.v)
          [] k \in {"uint64", "int"} -> IntV(k, x.v)
          [] k \in {"bytes", "string"} -> StrV(k, x.v)
          [] k = "time" -> x.v,
        x.err)

readAny(rd) ==
    LET dispatch(b, u) ==
            CASE b \in {typeCodeBool, typeCodeBoolTrue, typeCodeBoolFalse} ->
                    AsAny("bool", readBool(u))
              [] b \in {typeCodeUbyte, typeCodeUshort, typeCodeUint, typeCodeSmallUint,
                        typeCodeUint0, typeCodeUlong, typeCodeSmallUlong, typeCodeUlong0} ->
                    AsAny("uint64", readUint(u))
              [] b \in {typeCodeByte, typeCodeShort, typeCodeInt, typeCodeSmallint,
                        typeCodeLong, typeCodeSmalllong} ->
                    AsAny("int", readInt(u))
              [] b \in {typeCodeFloat, typeCodeDouble, typeCodeDecimal32, typeCodeDecimal64,
                        typeCodeDecimal128, typeCodeChar, typeCodeUUID, typeCodeList0,
                        typeCodeList8, typeCodeList32, typeCodeMap8, typeCodeMap32,
                        typeCodeArray8, typeCodeArray32} ->
                    Ret(u, Nil, "not implemented")
              [] b \in {typeCodeVbin8, typeCodeVbin32} -> AsAny("bytes", readBinary(u))
              [] b \in {typeCodeStr8, typeCodeStr32, typeCodeSym8, typeCodeSym32} ->
                    AsAny("string", readString(u))
              [] b = typeCodeTimestamp -> AsAny("time", readTimestamp(u))
              [] OTHER -> Ret(u, Nil, "unknown type")
        code(c) ==
            IF c.err # "" THEN Ret(c.r, Nil, c.err)
            ELSE IF c.b = typeCodeNull THEN Ret(c.r, Nil, "")
            ELSE dispatch(c.b, UnreadByte(c.r))
    IN  code(ReadByte(rd))

-----------------------------------------------------------------------------
(* Sinks, null handlers and the map reader *)

\* What unmarshal is given: a pointer to a value of Go type kind.  A sink of
\* kind "ptr" is a pointer to a pointer to elem, nil or not.
Sink(kind, val) == [kind |-> kind, elem |-> "", nil |-> FALSE, val |-> val]
PtrSink(elem, isNil, val) == [kind |-> "ptr", elem |-> elem, nil |-> isNil, val |-> val]

\* uint64(val), uint32(val), uint16(val), uint8(val) of a value below 2^31.
Narrow(kind, n) ==
    CASE kind = "uint16" -> n % 65536
      [] kind = "uint8" -> n % 256
      [] OTHER -> n

NoHandler == [kind |-> "nil", name |-> "", slot |-> 0, value |-> Nil]

required(name) == [kind |-> "required", name |-> name, slot |-> 0, value |-> Nil]

\* defaultUint32, defaultUint16, defaultUint8, defaultSymbol: slot is the
\* index of the schema entry whose sink the handler's pointer points to.
default(slot, defaultValue) ==
    [kind |-> "default", name |-> "", slot |-> slot, value |-> defaultValue]

\* An entry of the call log: unmarshal of field i, or its null handler.
Call(op, i) == [op |-> op, i |-> i]

unmarshalField(f, h) == [field |-> f, handleNull |-> h]

\* fields[i].handleNull(): the schema after the call, and the error.
handleNull(fields, i) ==
    LET call(h) ==
            CASE h.kind = "required" -> [fields |-> fields, err |-> h.name \o " is required"]
              [] h.kind = "default" ->
                    [fields |-> [fields EXCEPT ![h.slot].field.val = h.value], err |-> ""]
    IN  call(fields[i].handleNull)

pairs(m) == m.count \div 2

more(m) == m.read < m.count

NoMapReader == [count |-> 0, read |-> 0]

newMapReader(rd) ==
    LET fail(x, e) == [r |-> x, mr |-> NoMapReader, err |-> e]
        count(b, n) ==
            IF b.err # "" THEN fail(b.r, b.err)
            ELSE [r |-> [b.r EXCEPT !.limited = TRUE, !.limit = n, !.read = 0],
                  mr |-> [count |-> b.b, read |-> 0], err |-> ""]
        size(x, n, e) ==
            IF e # "" THEN fail(x, e)
            ELSE IF n > RLen(x) THEN fail(x, errInvalidLength)
            ELSE count(ReadByte(x), n)
        size8(bn) == size(bn.r, bn.b, bn.err)
        size32(n) == size(n.r, BigEndian(n.bs), n.err)
        code(c) ==
            IF c.err # "" THEN fail(c.r, c.err)
            ELSE CASE c.b = typeCodeNull -> fail(c.r, errNull)
                   [] c.b = typeCodeMap8 -> size8(ReadByte(c.r))
                   [] c.b = typeCodeMap32 -> size32(BinaryRead(c.r, 4))
                   [] OTHER -> fail(c.r, "invalid map type")
    IN  code(ReadByte(rd))

\* m[key] = value
MapSet(mm, key, value) ==
    [x \in (DOMAIN mm) \cup {key} |-> IF x = key THEN value ELSE mm[x]]

\* The key type of a map decoder.
KeyKind(kind) ==
    CASE kind = "mapAnyAny" -> "any"
      [] kind = "mapStringAny" -> "string"
      [] kind = "mapSymbolAny" -> "Symbol"

errorWrapf(e, i) == "unmarshaling field " \o ToString(i) \o ": " \o e

-----------------------------------------------------------------------------
(* unmarshal, the map decoders and unmarshalComposite *)

\* A deferred function that lets the sentinel through.
deferNull_Mut(res) == res

\* The deferred function of unmarshal: errNull is not passed up.
deferNull(res) ==
    IF res.err = errNull THEN [res EXCEPT !.null = TRUE, !.err = ""] ELSE res

RECURSIVE unmarshal(_, _)
RECURSIVE mapUnmarshalLoop(_, _, _, _)
RECURSIVE unmarshalFieldsLoop(_, _, _)
RECURSIVE handleNullLoop(_, _)

\* mr.next(&key, &value): the reader, the mapReader and the two sinks after it.
mapReaderNext(rd, m, key, value) ==
    LET second(k, v) ==
            IF v.err # ""
            THEN [r |-> v.r, mr |-> [m EXCEPT !.read = @ + 1],
                  key |-> k.sink, value |-> v.sink, err |-> v.err]
            ELSE [r |-> v.r, mr |-> [m EXCEPT !.read = @ + 2],
                  key |-> k.sink, value |-> v.sink, err |-> ""]
        first(k) ==
            IF k.err # ""
            THEN [r |-> k.r, mr |-> m, key |-> k.sink, value |-> value, err |-> k.err]
            ELSE second(k, unmarshal(k.r, value))
    IN  first(unmarshal(rd, key))

\* One iteration of the loop of a map decoder: next, and mm[key] = value.
mapUnmarshalStep(rd, m, kind, mm) ==
    LET store(n) ==
            IF n.err # "" THEN [r |-> n.r, mr |-> n.mr, mm |-> mm, err |-> n.err]
            ELSE IF kind = "mapAnyAny" /\ n.key.val.k = "bytes"
            THEN [r |-> n.r, mr |-> n.mr, mm |-> mm, err |-> "invalid map key"]
            ELSE [r |-> n.r, mr |-> n.mr,
                  mm |-> MapSet(mm, IF kind = "mapAnyAny" THEN n.key.val ELSE n.key.val.s,
                                n.value.val),
                  err |-> ""]
    IN  store(mapReaderNext(rd, m, Sink(KeyKind(kind), Zero(KeyKind(kind))), Sink("any", Nil)))

mapUnmarshalLoop(rd, m, kind, mm) ==
    LET iter(n) ==
            IF n.err # "" THEN Ret(n.r, mm, n.err)
            ELSE mapUnmarshalLoop(n.r, n.mr, kind, n.mm)
    IN  IF ~more(m) THEN Ret(rd, mm, "")
        ELSE iter(mapUnmarshalStep(rd, m, kind, mm))

\* The reader the caller keeps once the map decoder returned: its own, not
\* the limitReader that wrapped it.
Unwrap(rd, x) == Ret([x.r EXCEPT !.limited = rd.limited, !.limit = rd.limit, !.read = rd.read],
                     x.v, x.err)

\* mapAnyAny.unmarshal, mapStringAny.unmarshal, mapSymbolAny.unmarshal:
\* v is the decoded map, to be stored only when there is no error.
mapUnmarshal(rd, kind) ==
    LET entries(h) ==
            IF h.err # "" THEN Unwrap(rd, Ret(h.r, <<>>, h.err))
            ELSE Unwrap(rd, mapUnmarshalLoop(h.r, h.mr, kind, <<>>))
    IN  entries(newMapReader(rd))

\* readCompositeHeader: v the composite type, fields the number of fields.
readCompositeHeader(rd) ==
    LET ret(x, t, n, e) == [r |-> x, v |-> t, fields |-> n, err |-> e]
        list(v, h) == ret(h.r, v.v % 256, h.v, h.err)
        descriptor(v) ==
            IF v.err # "" THEN ret(v.r, 0, 0, v.err)
            ELSE list(v, readHeaderSlice(v.r))
        prefix(byt) ==
            IF byt.err # "" THEN ret(byt.r, 0, 0, byt.err)
            ELSE IF byt.b = typeCodeNull THEN ret(byt.r, 0, 0, errNull)
            ELSE IF byt.b # 0 THEN ret(byt.r, 0, 0, "invalid composite header")
            ELSE descriptor(readInt(byt.r))
    IN  prefix(ReadByte(rd))

\* A head of unmarshalComposite that does not check the type.
compositeHeader_Mut(rd, typ, fields) ==
    LET checks(h) ==
            IF h.err # "" THEN [r |-> h.r, numFields |-> 0, err |-> h.err]
            ELSE IF h.fields > Len(fields)
            THEN [r |-> h.r, numFields |-> 0, err |-> "invalid field count"]
            ELSE [r |-> h.r, numFields |-> h.fields, err |-> ""]
    IN  checks(readCompositeHeader(rd))

\* The head of unmarshalComposite: the header and its two checks.
compositeHeader(rd, typ, fields) ==
    LET checks(h) ==
            IF h.err # "" THEN [r |-> h.r, numFields |-> 0, err |-> h.err]
            ELSE IF h.v # typ THEN [r |-> h.r, numFields |-> 0, err |-> "invalid header"]
            ELSE IF h.fields > Len(fields)
            THEN [r |-> h.r, numFields |-> 0, err |-> "invalid field count"]
            ELSE [r |-> h.r, numFields |-> h.fields, err |-> ""]
    IN  checks(readCompositeHeader(rd))

\* The schema entry i is the source's fields[i-1].
\* One iteration of the first loop of unmarshalComposite.
unmarshalFieldStep(rd, fields, cs, i) ==
    LET handled(u, h) ==
            [r |-> u.r, fields |-> h.fields,
             calls |-> cs \o <<Call("unmarshal", i), Call("handleNull", i)>>, err |-> h.err]
        field(u) ==
            IF u.err # ""
            THEN [r |-> u.r, fields |-> [fields EXCEPT ![i].field = u.sink],
                  calls |-> Append(cs, Call("unmarshal", i)), err |-> errorWrapf(u.err, i - 1)]
            ELSE IF u.null /\ fields[i].handleNull.kind # "nil"
            THEN handled(u, handleNull([fields EXCEPT ![i].field = u.sink], i))
            ELSE [r |-> u.r, fields |-> [fields EXCEPT ![i].field = u.sink],
                  calls |-> Append(cs, Call("unmarshal", i)), err |-> ""]
    IN  field(unmarshal(rd, fields[i].field))

\* A second loop that goes on after a handler's error.
handleNullStep_Mut(fields, cs, i) ==
    LET handled(h) ==
            [fields |-> h.fields, calls |-> Append(cs, Call("handleNull", i)), err |-> ""]
    IN  IF fields[i].handleNull.kind # "nil"
        THEN handled(handleNull(fields, i))
        ELSE [fields |-> fields, calls |-> cs, err |-> ""]

\* One iteration of the second loop of unmarshalComposite.
handleNullStep(fields, cs, i) ==
    LET handled(h) ==
            [fields |-> h.fields, calls |-> Append(cs, Call("handleNull", i)), err |-> h.err]
    IN  IF fields[i].handleNull.kind # "nil"
        THEN handled(handleNull(fields, i))
        ELSE [fields |-> fields, calls |-> cs, err |-> ""]

\* The first loop, from field i to field numFields.
unmarshalFieldsLoop(st, i, numFields) ==
    LET iter(n) == IF n.err # "" THEN n ELSE unmarshalFieldsLoop(n, i + 1, numFields)
    IN  IF i > numFields THEN st
        ELSE iter(unmarshalFieldStep(st.r, st.fields, st.calls, i))

\* The second loop, from field i to the last.
handleNullLoop(st, i) ==
    LET iter(n) ==
            IF n.err # "" THEN [r |-> st.r, fields |-> n.fields, calls |-> n.calls, err |-> n.err]
            ELSE handleNullLoop([r |-> st.r, fields |-> n.fields, calls |-> n.calls, err |-> ""],
                                i + 1)
    IN  IF i > Len(st.fields) THEN st
        ELSE iter(handleNullStep(st.fields, st.calls, i))

unmarshalComposite(rd, typ, fields) ==
    LET absent(st, numFields) ==
            IF st.err # "" THEN st ELSE handleNullLoop(st, numFields + 1)
        present(h) ==
            IF h.err # "" THEN [r |-> h.r, fields |-> fields, calls |-> <<>>, err |-> h.err]
            ELSE absent(unmarshalFieldsLoop(
                            [r |-> h.r, fields |-> fields, calls |-> <<>>, err |-> ""],
                            1, h.numFields),
                        h.numFields)
    IN  present(compositeHeader(rd, typ, fields))

\* The unmarshal method of a composite type: its type code is val.n and its
\* schema val.m.
compositeUnmarshal(rd, val) ==
    LET decoded(c) == Ret(c.r, [val EXCEPT !.m = c.fields], c.err)
    IN  decoded(unmarshalComposite(rd, val.n, val.m))

\* milliseconds.unmarshal: the duration of n milliseconds, stored even when
\* unmarshal failed or found null (n is 0 then).  A duration is held as its
\* whole milliseconds (n) and the nanoseconds beyond them (ns).
millisecondsUnmarshal(rd) ==
    LET duration(u) == Ret(u.r, Val("milliseconds", u.sink.val.n, 0, <<>>, <<>>), u.err)
    IN  duration(unmarshal(rd, Sink("uint32", IntV("uint32", 0))))

\* The value a reader returned, as the Go type k of the sink.
AsKind(k, u) ==
    Ret(u.r,
        CASE k \in {"int", "uint64", "uint32", "uint16", "uint8"} -> IntV(k, Narrow(k, u.v))
          [] k \in {"string", "Symbol", "bytes"} -> StrV(k, u.v)
          [] k \in {"symbols", "mapAnyAny", "mapStringAny", "mapSymbolAny"} -> MapV(k, u.v)
          [] k = "bool" -> BoolV(u.v)
          [] OTHER -> u.v,
        u.err)

unmarshal(rd, sink) ==
    LET \* val, err := read(r); if err != nil { return null, err }; *t = val
        set(u) ==
            [r |-> u.r, sink |-> IF u.err = "" THEN [sink EXCEPT !.val = u.v] ELSE sink,
             null |-> FALSE, err |-> u.err]
        \* return null, t.unmarshal(r)
        delegate(u) ==
            [r |-> u.r, sink |-> [sink EXCEPT !.val = u.v], null |-> FALSE, err |-> u.err]
        \* return unmarshal(r, indirect.Interface())
        indirect(u) ==
            [r |-> u.r, sink |-> PtrSink(sink.elem, FALSE, u.sink.val),
             null |-> u.null, err |-> u.err]
        k == sink.kind
    IN  deferNull(
        CASE k = "composite" -> delegate(compositeUnmarshal(rd, sink.val))
          [] k = "milliseconds" -> delegate(millisecondsUnmarshal(rd))
          [] k = "int" -> set(AsKind(k, readInt(rd)))
          [] k \in {"uint64", "uint32", "uint16", "uint8"} -> set(AsKind(k, readUint(rd)))
          [] k = "string" -> set(AsKind(k, readString(rd)))
          [] k = "symbols" -> set(AsKind(k, readSymbolArray(rd)))
          [] k = "Symbol" -> set(AsKind(k, readString(rd)))
          [] k = "bytes" -> set(AsKind(k, readBinary(rd)))
          [] k = "bool" -> set(AsKind(k, readBool(rd)))
          [] k = "time" -> set(AsKind(k, readTimestamp(rd)))
          [] k \in {"mapAnyAny", "mapStringAny", "mapSymbolAny"} ->
                set(AsKind(k, mapUnmarshal(rd, k)))
          [] k = "any" -> set(AsKind(k, readAny(rd)))
          [] k = "ptr" ->
                indirect(unmarshal(rd, Sink(sink.elem,
                                            IF sink.nil THEN Zero(sink.elem) ELSE sink.val)))
          [] OTHER ->
                [r |-> rd, sink |-> sink, null |-> FALSE, err |-> "unable to unmarshal"])

-----------------------------------------------------------------------------
(* Encoders.  Each returns the writer's bytes after the call and the error. *)

W(w, e) == [wr |-> w, err |-> e]

\* The number of bytes of the character a leading byte b starts (0: b
\* starts no character).
CharLen(b) ==
    CASE b < 128 -> 1
      [] b >= 194 /\ b <= 223 -> 2
      [] b >= 224 /\ b <= 239 -> 3
      [] b >= 240 /\ b <= 244 -> 4
      [] OTHER -> 0

\* The range the second byte of a character led by b lies in.
SecondLo(b) == CASE b = 224 -> 160 [] b = 240 -> 144 [] OTHER -> 128
SecondHi(b) == CASE b = 237 -> 159 [] b = 244 -> 143 [] OTHER -> 191

Continuation(b) == b >= 128 /\ b <= 191

\* utf8.ValidString: every byte that is not a continuation byte leads a
\* whole character, and every continuation byte belongs to one.
ValidString(s) ==
    \A i \in 1..Len(s) :
        IF Continuation(s[i])
        THEN \E d \in 1..3 :
                /\ i - d >= 1
                /\ CharLen(s[i - d]) > d
                /\ \A e \in 1..(d - 1) : Continuation(s[i - e])
        ELSE /\ CharLen(s[i]) > 0
             /\ i + CharLen(s[i]) - 1 <= Len(s)
             /\ \A j \in (i + 1)..(i + CharLen(s[i]) - 1) :
                    /\ Continuation(s[j])
                    /\ j = i + 1 => (s[j] >= SecondLo(s[i]) /\ s[j] <= SecondHi(s[i]))

writeSymbol(w, sym, typ) ==
    IF ~ValidString(sym) THEN W(w, "not a valid UTF-8 string")
    ELSE CASE typ = typeCodeSym8 -> W(w \o <<Len(sym) % 256>> \o sym, "")
           [] typ = typeCodeSym32 -> W(w \o PutBigEndian(Len(sym), 4) \o sym, "")
           [] OTHER -> W(w, "invalid symbol type")

\* A writeString that keeps the 8-bit form for one length too many.
writeString_Mut(w, str) ==
    LET l == Len(str)
    IN  IF ~ValidString(str) THEN W(w, "not a valid UTF-8 string")
        ELSE CASE l <= 256 -> W(w \o <<typeCodeStr8, l % 256>> \o str, "")
               [] OTHER -> W(w \o <<typeCodeStr32>> \o PutBigEndian(l, 4) \o str, "")

writeString(w, str) ==
    LET l == Len(str)
    IN  IF ~ValidString(str) THEN W(w, "not a valid UTF-8 string")
        ELSE CASE l < 256 -> W(w \o <<typeCodeStr8, l % 256>> \o str, "")
               [] l >= 256 /\ LtMaxUint32(l) ->
                    W(w \o <<typeCodeStr32>> \o PutBigEndian(l, 4) \o str, "")
               [] OTHER -> W(w, "too long")

writeBinary(w, bin) ==
    LET l == Len(bin)
    IN  CASE l < 256 -> W(w \o <<typeCodeVbin8, l % 256>> \o bin, "")
          [] l >= 256 /\ LtMaxUint32(l) ->
                W(w \o <<typeCodeVbin32>> \o PutBigEndian(l, 4) \o bin, "")
          [] OTHER -> W(w, "too long")

\* The concatenation of a sequence of byte strings (by halves, which keeps
\* the recursion shallow).
RECURSIVE Concat(_)
Concat(fields) ==
    IF fields = <<>> THEN <<>>
    ELSE IF Len(fields) = 1 THEN fields[1]
    ELSE Concat(SubSeq(fields, 1, Len(fields) \div 2))
         \o Concat(SubSeq(fields, Len(fields) \div 2 + 1, Len(fields)))

writeSlice(w, isArray, of, fields) ==
    LET size8 == IF isArray THEN typeCodeArray8 ELSE typeCodeList8
        size32 == IF isArray THEN typeCodeArray32 ELSE typeCodeList32
        body(h, all) == W(h \o (IF isArray THEN <<of>> ELSE <<>>) \o all, "")
        slice(all, size, l) ==
            CASE l = 0 ->
                    IF isArray THEN W(w, "invalid array length 0")
                    ELSE W(w \o <<typeCodeList0>>, "")
              [] l > 0 /\ l < 256 /\ size < 256 ->
                    body(w \o <<size8, (size + 1) % 256, l % 256>>, all)
              [] l > 0 /\ ~(l < 256 /\ size < 256) /\ LtMaxUint32(l) /\ LtMaxUint32(size) ->
                    body(w \o <<size32>> \o PutBigEndian(size + 4, 4) \o PutBigEndian(l, 4),
                         all)
              [] OTHER -> W(w, "too many fields")
        sized(all) == slice(all, Len(all), Len(fields))
    IN  sized(Concat(fields))

writeArray(w, of, fields) == writeSlice(w, TRUE, of, fields)

writeList(w, fields) == writeSlice(w, FALSE, 0, fields)

\* The second loop of writeSymbolArray: every symbol encoded into the
\* scratch buffer, then copied to elems.
RECURSIVE symbolElems(_, _, _, _)
symbolElems(symbols, ofType, i, elems) ==
    LET elem(buf) ==
            IF buf.err # "" THEN [elems |-> elems, err |-> buf.err]
            ELSE symbolElems(symbols, ofType, i + 1, Append(elems, buf.wr))
    IN  IF i > Len(symbols) THEN [elems |-> elems, err |-> ""]
        ELSE elem(writeSymbol(<<>>, symbols[i], ofType))

\* A writeSymbolArray that looks at the first symbol only for the width.
writeSymbolArray_Mut(w, symbols) ==
    LET array(ofType, e) ==
            IF e.err # "" THEN W(w, e.err)
            ELSE writeArray(w, ofType, e.elems)
        encode(ofType) == array(ofType, symbolElems(symbols, ofType, 1, <<>>))
    IN  encode(IF symbols # <<>> /\ Len(symbols[1]) > MaxUint8
               THEN typeCodeSym32 ELSE typeCodeSym8)

writeSymbolArray(w, symbols) ==
    LET array(ofType, e) ==
            IF e.err # "" THEN W(w, e.err)
            ELSE writeArray(w, ofType, e.elems)
        encode(ofType) == array(ofType, symbolElems(symbols, ofType, 1, <<>>))
    IN  encode(IF \E i \in 1..Len(symbols) : Len(symbols[i]) > MaxUint8
               THEN typeCodeSym32 ELSE typeCodeSym8)

\* Symbol.marshal
symbolMarshal(w, sym) ==
    LET l == Len(sym)
    IN  CASE l < 256 -> W(w \o <<typeCodeSym8, l % 256>> \o sym, "")
          [] l >= 256 /\ LtMaxUint32(l) -> W(w \o PutBigEndian(l, 4) \o sym, "")
          [] OTHER -> W(w, "too long")

\* marshal of a value i of Go type i.k; "*uint32" is a pointer to i.n and
\* "nil *uint32" the nil pointer; "composite" is a marshaler whose marshal
\* is marshalComposite(wr, i.n, i.m...).  milliseconds.marshal writes the uint32
\* Nanoseconds()/1000000, the duration's whole milliseconds.
RECURSIVE marshal(_, _)
RECURSIVE marshalComposite(_, _, _)
marshal(w, i) ==
    CASE i.k = "Symbol" -> symbolMarshal(w, i.s)
      [] i.k = "composite" -> marshalComposite(w, i.n, i.m)
      [] i.k = "milliseconds" -> marshal(w, IntV("uint32", i.n))
      [] i.k = "bool" ->
            W(Append(w, IF i.n = 1 THEN typeCodeBoolTrue ELSE typeCodeBoolFalse), "")
      [] i.k = "uint64" ->
            IF i.n = 0 THEN W(Append(w, typeCodeUlong0), "")
            ELSE W(w \o <<typeCodeUlong>> \o PutBigEndian(i.n, 8), "")
      [] i.k = "uint32" ->
            IF i.n = 0 THEN W(Append(w, typeCodeUint0), "")
            ELSE W(w \o <<typeCodeUint>> \o PutBigEndian(i.n, 4), "")
      [] i.k = "nil *uint32" -> W(Append(w, typeCodeNull), "")
      [] i.k = "*uint32" ->
            IF i.n = 0 THEN W(Append(w, typeCodeUint0), "")
            ELSE W(w \o <<typeCodeUint>> \o PutBigEndian(i.n, 4), "")
      [] i.k = "uint16" -> W(w \o <<typeCodeUshort>> \o PutBigEndian(i.n, 2), "")
      [] i.k = "uint8" -> W(w \o <<typeCodeUbyte, i.n>>, "")
      [] i.k = "symbols" -> writeSymbolArray(w, i.m)
      [] i.k = "string" -> writeString(w, i.s)
      [] i.k = "bytes" -> writeBinary(w, i.s)
      [] OTHER -> W(w, "marshal not implemented")

marshalField(value, omit) == [value |-> value, omit |-> omit]

\* The first loop of marshalComposite, from field i on: rawFields[i] stays
\* nil (the empty string) for an omitted field.
RECURSIVE marshalFields(_, _, _, _)
marshalFields(fields, i, rawFields, lastSetIdx) ==
    LET field(buf) ==
            IF buf.err # ""
            THEN [rawFields |-> rawFields, lastSetIdx |-> lastSetIdx, err |-> buf.err]
            ELSE marshalFields(fields, i + 1, [rawFields EXCEPT ![i] = buf.wr], i - 1)
    IN  IF i > Len(fields)
        THEN [rawFields |-> rawFields, lastSetIdx |-> lastSetIdx, err |-> ""]
        ELSE IF fields[i].omit THEN marshalFields(fields, i + 1, rawFields, lastSetIdx)
        ELSE field(marshal(<<>>, fields[i].value))

\* A second loop that leaves the nil indexes as they are.
writeNulls_Mut(rawFields, lastSetIdx) == rawFields

\* The second loop of marshalComposite: null at each nil index up to lastSetIdx.
writeNulls(rawFields, lastSetIdx) ==
    [i \in 1..Len(rawFields) |->
        IF i - 1 < lastSetIdx + 1 /\ rawFields[i] = <<>>
        THEN <<typeCodeNull>> ELSE rawFields[i]]

\* lastSetIdx is the source's, counted from 0 (-1: no field is set).
marshalComposite(w, code, fields) ==
    LET write(m) ==
            IF m.err # "" THEN W(w, m.err)
            ELSE writeList(w \o <<0, typeCodeSmallUlong, code % 256>>,
                           SubSeq(writeNulls(m.rawFields, m.lastSetIdx), 1, m.lastSetIdx + 1))
    IN  write(marshalFields(fields, 1, [i \in 1..Len(fields) |-> <<>>], -1))

writeMapHeader(w, elements) ==
    IF elements < MaxUint8 THEN W(w \o <<typeCodeMap8, elements % 256>>, "")
    ELSE W(w \o <<typeCodeMap32>> \o PutBigEndian(elements, 4), "")

writeMapElement(w, key, value) ==
    LET val(k) == IF k.err # "" THEN k ELSE marshal(k.wr, value)
    IN  val(marshal(w, key))

-----------------------------------------------------------------------------
(* Inputs *)

\* The longest input, in tokens.
MaxTokens == 2

\* Encoded values, whole and cut short, a byte stream is made of.
Tokens ==
    { <<typeCodeNull>>,
      <<typeCodeUint0>>,
      <<typeCodeSmallUint, 1>>,
      <<typeCodeUint, 0, 0, 1, 44>>,
      <<typeCodeUint, 0>>,
      <<typeCodeSmallint, 255>>,
      <<typeCodeBoolTrue>>,
      <<typeCodeBool>>,
      <<typeCodeStr8, 1, 97>>,
      <<typeCodeStr8, 5, 97>>,
      <<typeCodeSym8, 1, 98>>,
      <<typeCodeVbin8, 1, 7>>,
      <<typeCodeTimestamp, 0, 0, 0, 0, 0, 0, 5, 220>>,
      <<typeCodeMap8, 3, 2, typeCodeBoolTrue, typeCodeBoolFalse>>,
      <<typeCodeArray8, 4, 1, typeCodeSym8, 1, 97>>,
      <<typeCodeList0>>,
      <<0, typeCodeSmallUlong, typeCodeOpen, typeCodeList0>>,
      <<0, typeCodeSmallUlong, typeCodeOpen, typeCodeList8, 2, 1, typeCodeNull>>,
      <<0, typeCodeNull>> }

\* The byte streams of at most n tokens.
RECURSIVE Streams(_)
Streams(n) ==
    IF n = 0 THEN {<<>>}
    ELSE Streams(n - 1) \cup {s \o t : s \in Streams(n - 1), t \in Tokens}

\* A value a sink holds before the decode.
Prior(k) ==
    CASE k \in {"string", "Symbol", "bytes"} -> StrV(k, <<122>>)
      [] k = "symbols" -> MapV(k, <<<<122>>>>)
      [] k \in {"mapAnyAny", "mapStringAny", "mapSymbolAny"} -> MapV(k, <<>>)
      [] k = "time" -> TimeV(7, 0)
      [] k = "any" -> BoolV(TRUE)
      [] k = "bool" -> BoolV(TRUE)
      [] OTHER -> IntV(k, 7)

\* The schema of a composite with two fields: a uint32 with a default and
\* a required string.
Schema2 ==
    << unmarshalField(Sink("uint32", Prior("uint32")), default(1, IntV("uint32", 512))),
       unmarshalField(Sink("string", Prior("string")), required("ContainerID")) >>

UnsignedKinds == {"uint64", "uint32", "uint16", "uint8"}

SinkKinds ==
    UnsignedKinds \cup
    {"int", "string", "symbols", "Symbol", "bytes", "bool", "time", "mapAnyAny",
     "mapStringAny", "mapSymbolAny", "any", "milliseconds"}

\* The sinks unmarshal is called with.
SomeSinks ==
    {Sink(k, Prior(k)) : k \in SinkKinds}
    \cup {Sink("composite", Val("composite", typeCodeOpen, 0, <<>>, Schema2))}
    \cup {PtrSink(k, FALSE, Prior(k)) : k \in {"uint32", "bool", "mapStringAny"}}
    \cup {PtrSink(k, TRUE, Zero(k)) : k \in {"uint32", "time", "symbols"}}
    \cup {Sink("uint32 value", IntV("uint32", 7))}

NoArg == [op |-> "none"]
NoLocal == [i |-> 0, numFields |-> 0]

-----------------------------------------------------------------------------
(* unmarshal of one value from a byte stream *)

InitUnmarshal ==
    /\ pc = "start"
    /\ \E bs \in Streams(MaxTokens), sink \in SomeSinks :
            /\ arg = [op |-> "unmarshal", bytes |-> bs, sink |-> sink]
            /\ r = Buffer(bs)
            /\ sinks = <<sink>>
    /\ mr = NoMapReader
    /\ wr = <<>>
    /\ err = ""
    /\ null = FALSE
    /\ calls = <<>>
    /\ local = NoLocal

Unmarshal ==
    /\ pc = "start"
    /\ arg.op = "unmarshal"
    /\ LET u == unmarshal(r, sinks[1])
       IN  /\ r' = u.r
           /\ sinks' = <<u.sink>>
           /\ null' = u.null
           /\ err' = u.err
    /\ pc' = "done"
    /\ UNCHANGED <<arg, mr, wr, calls, local>>

NextUnmarshal == Unmarshal

SpecUnmarshal == InitUnmarshal /\ [][NextUnmarshal]_vars

\* C3: unmarshal never returns the null sentinel errNull as its error,
\* whatever the sink and the bytes; and when the next byte is Null (0x40) and
\* the sink is a pointer to an unsigned integer, it returns null = true and a
\* nil error, and the sink keeps its value.
C3_NullNeverEscapes ==
    pc = "done" =>
        /\ err # errNull
        /\ (/\ arg.bytes # <<>>
            /\ arg.bytes[1] = typeCodeNull
            /\ arg.sink.kind \in UnsignedKinds)
           => (null /\ err = "" /\ sinks = <<arg.sink>>)

C3_Witness ==
    /\ pc = "done"
    /\ arg.bytes # <<>>
    /\ arg.bytes[1] = typeCodeNull
    /\ arg.sink.kind = "uint16"
    /\ null

\* The sentinel of a nested reader is converted too: a composite whose
\* header is Null, a map that is Null, behind a pointer to a pointer.
C3_WitnessNested ==
    /\ pc = "done"
    /\ arg.bytes # <<>>
    /\ arg.bytes[1] = typeCodeNull
    /\ arg.sink.kind \in {"composite", "mapAnyAny", "symbols", "time", "ptr"}
    /\ null

-----------------------------------------------------------------------------
(* unmarshalComposite of a composite from a byte stream, one field a step *)

\* The longest schema, and the most fields on the wire.
MaxFields == 2
MaxWire == 2

\* The schema entries: the sink of entry i and its null handler.
Entries(i) ==
    { unmarshalField(Sink("uint32", Prior("uint32")), default(i, IntV("uint32", 512))),
      unmarshalField(Sink("uint16", Prior("uint16")), required("Channel")),
      unmarshalField(Sink("string", Prior("string")), required("ContainerID")),
      unmarshalField(Sink("Symbol", Prior("Symbol")), default(i, StrV("Symbol", <<115>>))),
      unmarshalField(Sink("bytes", Prior("bytes")), required("Response")),
      unmarshalField(Sink("bool", Prior("bool")), required("Closed")),
      unmarshalField(Sink("any", Prior("any")), required("Value")),
      unmarshalField(Sink("milliseconds", Prior("milliseconds")), required("IdleTimeout")),
      unmarshalField(Sink("uint8", Prior("uint8")), NoHandler) }

\* The schemas of n entries.
RECURSIVE SchemasOf(_)
SchemasOf(n) ==
    IF n = 0 THEN {<<>>}
    ELSE {Append(s, e) : s \in SchemasOf(n - 1), e \in Entries(n)}

Schemas == UNION {SchemasOf(n) : n \in 0..MaxFields}

\* The encoded fields on the wire.
FieldTokens ==
    { <<typeCodeNull>>, <<typeCodeSmallUint, 1>>, <<typeCodeStr8, 1, 97>>, <<typeCodeBoolTrue>> }

RECURSIVE WireFields(_)
WireFields(n) ==
    IF n = 0 THEN {<<>>}
    ELSE {Append(s, t) : s \in WireFields(n - 1), t \in FieldTokens}

\* The list body of a composite: List0, or a List8 header and its fields.
ListBody(fs) ==
    IF fs = <<>> THEN <<typeCodeList0>>
    ELSE <<typeCodeList8, (Len(Concat(fs)) + 1) % 256, Len(fs)>> \o Concat(fs)

\* Composites on the wire: well-formed ones of type Open, Begin and 0x110
\* (a ushort), and malformed ones.
Composites ==
    {<<0, typeCodeSmallUlong, typeCodeOpen>> \o ListBody(fs) :
        fs \in UNION {WireFields(n) : n \in 0..MaxWire}}
    \cup {<<0, typeCodeSmallUlong, typeCodeBegin>> \o ListBody(fs) : fs \in WireFields(1)}
    \cup {<<0, typeCodeUshort, 1, typeCodeOpen>> \o ListBody(fs) : fs \in WireFields(1)}
    \cup { <<>>, <<typeCodeNull>>, <<1>>, <<0, typeCodeNull>>,
           <<0, typeCodeSmallUlong, typeCodeOpen, typeCodeNull>>,
           <<0, typeCodeSmallUlong, typeCodeOpen, typeCodeList8, 1, 2>> }

InitComposite ==
    /\ pc = "start"
    /\ \E bs \in Composites, fields \in Schemas :
            /\ arg = [op |-> "unmarshalComposite", bytes |-> bs,
                      typ |-> typeCodeOpen, fields |-> fields]
            /\ r = Buffer(bs)
            /\ sinks = fields
    /\ mr = NoMapReader
    /\ wr = <<>>
    /\ err = ""
    /\ null = FALSE
    /\ calls = <<>>
    /\ local = NoLocal

\* readCompositeHeader and the checks of the type and of the field count.
CompositeHeader ==
    /\ pc = "start"
    /\ arg.op = "unmarshalComposite"
    /\ LET h == compositeHeader(r, arg.typ, sinks)
       IN  /\ r' = h.r
           /\ err' = h.err
           /\ pc' = IF h.err # "" THEN "done" ELSE "fields"
           /\ local' = IF h.err # "" THEN local ELSE [i |-> 1, numFields |-> h.numFields]
    /\ UNCHANGED <<arg, mr, wr, null, sinks, calls>>

\* An iteration of the first loop: a received field.
UnmarshalField ==
    /\ pc = "fields"
    /\ local.i <= local.numFields
    /\ LET n == unmarshalFieldStep(r, sinks, calls, local.i)
       IN  /\ r' = n.r
           /\ sinks' = n.fields
           /\ calls' = n.calls
           /\ err' = n.err
           /\ pc' = IF n.err # "" THEN "done" ELSE "fields"
           /\ local' = IF n.err # "" THEN local ELSE [local EXCEPT !.i = @ + 1]
    /\ UNCHANGED <<arg, mr, wr, null>>

\* An iteration of the second loop: a field the sender left out.
HandleNull ==
    /\ pc = "fields"
    /\ local.i > local.numFields
    /\ local.i <= Len(sinks)
    /\ LET n == handleNullStep(sinks, calls, local.i)
       IN  /\ sinks' = n.fields
           /\ calls' = n.calls
           /\ err' = n.err
           /\ pc' = IF n.err # "" THEN "done" ELSE "fields"
           /\ local' = IF n.err # "" THEN local ELSE [local EXCEPT !.i = @ + 1]
    /\ UNCHANGED <<arg, r, mr, wr, null>>

CompositeReturn ==
    /\ pc = "fields"
    /\ local.i > Len(sinks)
    /\ pc' = "done"
    /\ UNCHANGED <<arg, r, mr, wr, err, null, sinks, calls, local>>

NextComposite ==
    \/ CompositeHeader
    \/ UnmarshalField
    \/ HandleNull
    \/ CompositeReturn

SpecComposite == InitComposite /\ [][NextComposite]_vars


\* C2: a received field (index below the declared count) whose wire value is
\* the Null code 0x40 and whose schema entry has a null handler gets that
\* handler invoked, whatever the kind of its sink; a required(name) handler
\* makes the decode return "<name> is required".
C2_NullInvokesHandler ==
    [][(/\ pc = "fields"
        /\ local.i <= local.numFields
        /\ RLen(r) > 0
        /\ r.buf[r.off + 1] = typeCodeNull
        /\ sinks[local.i].handleNull.kind # "nil")
       => /\ calls' = calls \o <<Call("unmarshal", local.i), Call("handleNull", local.i)>>
          /\ sinks[local.i].handleNull.kind = "required"
                => err' = sinks[local.i].handleNull.name \o " is required"]_vars

\* The elements of a set of integers, in increasing order.
RECURSIVE Sorted(_)
Sorted(S) ==
    IF S = {} THEN <<>>
    ELSE LET least == CHOOSE x \in S : \A y \in S : x <= y
         IN  <<least>> \o Sorted(S \ {least})

\* The header was accepted and every received field was decoded, its null
\* handler included, without an error.
PresentFieldsDecoded == pc = "done" /\ local.i > local.numFields

\* The schema entries the sender left out that have a null handler, and the
\* required ones among them.
AbsentHandlers ==
    {j \in (local.numFields + 1)..Len(arg.fields) : arg.fields[j].handleNull.kind # "nil"}
AbsentRequired == {j \in AbsentHandlers : arg.fields[j].handleNull.kind = "required"}
FirstRequired == CHOOSE j \in AbsentRequired : \A k \in AbsentRequired : j <= k

\* The null handlers invoked for entries the sender left out, in call order.
AbsentCalls ==
    LET cs == SelectSeq(calls, LAMBDA c : c.op = "handleNull" /\ c.i > local.numFields)
    IN  [j \in 1..Len(cs) |-> cs[j].i]

\* C8: when the header declares n fields of a schema of m >= n entries and
\* the n received fields were decoded without error, the null handlers of
\* the entries n+1..m that have one are invoked in increasing order, after
\* every received field was decoded; the first required one makes the decode
\* return "<name> is required" and no later handler is invoked; otherwise
\* the decode succeeds and every default handler's slot holds its default.
C8_AbsentFieldsDefaulted ==
    PresentFieldsDecoded =>
        /\ \A j \in 1..local.numFields : \E a \in 1..Len(calls) : calls[a] = Call("unmarshal", j)
        /\ \A a, b \in 1..Len(calls) :
                (/\ calls[a].op = "handleNull"
                 /\ calls[a].i > local.numFields
                 /\ calls[b].op = "unmarshal") => b < a
        /\ IF AbsentRequired = {}
           THEN /\ AbsentCalls = Sorted(AbsentHandlers)
                /\ err = ""
                /\ \A j \in AbsentHandlers : sinks[j].field.val = arg.fields[j].handleNull.value
           ELSE /\ AbsentCalls = Sorted({j \in AbsentHandlers : j <= FirstRequired})
                /\ err = arg.fields[FirstRequired].handleNull.name \o " is required"

C8_Witness ==
    /\ PresentFieldsDecoded
    /\ local.numFields >= 1
    /\ Len(AbsentCalls) >= 1
    /\ err = ""
    /\ \E j \in AbsentHandlers : sinks[j].field.val # Prior(sinks[j].field.kind)

\* What readCompositeHeader finds at the head of the stream.
HeaderOnWire == readCompositeHeader(Buffer(arg.bytes))

\* The header is read, and its descriptor is not the expected code or it
\* declares more fields than the schema has.
HeaderRejected ==
    /\ arg.op = "unmarshalComposite"
    /\ pc # "start"
    /\ HeaderOnWire.err = ""
    /\ (HeaderOnWire.v # arg.typ \/ HeaderOnWire.fields > Len(arg.fields))

\* C9: when the decoded descriptor differs from the expected code, or the
\* declared field count exceeds the schema length, unmarshalComposite
\* returns an error before any field is decoded: no sink is written and no
\* null handler is invoked.
C9_RejectedHeaderTouchesNothing ==
    HeaderRejected =>
        /\ pc = "done"
        /\ err # ""
        /\ sinks = arg.fields
        /\ calls = <<>>

C9_Witness ==
    /\ HeaderRejected
    /\ HeaderOnWire.v # arg.typ
    /\ HeaderOnWire.fields >= 1
    /\ \E j \in 1..Len(arg.fields) : arg.fields[j].handleNull.kind # "nil"
    /\ pc = "done"

C9_WitnessCount ==
    /\ HeaderRejected
    /\ HeaderOnWire.v = arg.typ
    /\ HeaderOnWire.fields > Len(arg.fields)
    /\ pc = "done"

-----------------------------------------------------------------------------
(* A map decoder on a byte stream, one mapReader.next a step *)

\* The most encoded values after the map header, and the largest declared
\* size.
MaxEntryTokens == 2
MaxSize == 5

\* Encoded keys and values a map body is made of.
EntryTokens ==
    { <<typeCodeBoolTrue>>,
      <<typeCodeStr8, 1, 97>>,
      <<typeCodeStr8, 2, 97, 98>>,
      <<typeCodeSym8, 2, 99, 100>>,
      <<typeCodeVbin8, 1, 7>> }

RECURSIVE Bodies(_)
Bodies(n) ==
    IF n = 0 THEN {<<>>}
    ELSE Bodies(n - 1) \cup {s \o t : s \in Bodies(n - 1), t \in EntryTokens}

\* The header of a map: the code, the declared size in one or four bytes,
\* the count.
MapHeaders ==
    {<<typeCodeMap8, size, count>> : size \in 0..MaxSize, count \in 0..4}
    \cup {<<typeCodeMap32, 0, 0, 0, size, count>> : size \in 0..MaxSize, count \in {0, 2}}

\* Two pairs of a string key and a value.
TwoPairs ==
    <<typeCodeStr8, 1, 97, typeCodeBoolTrue, typeCodeStr8, 2, 97, 98, typeCodeBoolTrue>>

\* Maps on the wire, alone or followed by a byte of the enclosing frame.
Maps ==
    {h \o b \o t : h \in MapHeaders, b \in Bodies(MaxEntryTokens) \cup {TwoPairs},
                   t \in {<<>>, <<typeCodeNull>>}}

InitMap ==
    /\ pc = "start"
    /\ \E bs \in Maps, kind \in {"mapAnyAny", "mapStringAny", "mapSymbolAny"} :
            /\ arg = [op |-> "map", bytes |-> bs, kind |-> kind]
            /\ r = Buffer(bs)
            /\ sinks = <<Sink(kind, Prior(kind))>>
    /\ mr = NoMapReader
    /\ wr = <<>>
    /\ err = ""
    /\ null = FALSE
    /\ calls = <<>>
    /\ local = [mm |-> <<>>, nexts |-> 0]

\* newMapReader, and make(..., mr.pairs()).
NewMapReader ==
    /\ pc = "start"
    /\ arg.op = "map"
    /\ LET h == newMapReader(r)
       IN  /\ r' = h.r
           /\ mr' = h.mr
           /\ err' = h.err
           /\ pc' = IF h.err # "" THEN "done" ELSE "entries"
    /\ UNCHANGED <<arg, wr, null, sinks, calls, local>>

\* An iteration of the loop: mr.next(&key, &value) and mm[key] = value.
\* local.nexts counts the calls of next.
MapNext ==
    /\ pc = "entries"
    /\ more(mr)
    /\ LET n == mapUnmarshalStep(r, mr, arg.kind, local.mm)
       IN  /\ r' = n.r
           /\ mr' = n.mr
           /\ local' = [mm |-> n.mm, nexts |-> local.nexts + 1]
           /\ err' = n.err
           /\ pc' = IF n.err # "" THEN "done" ELSE "entries"
    /\ UNCHANGED <<arg, wr, null, sinks, calls>>

\* *m = mm; return nil
MapReturn ==
    /\ pc = "entries"
    /\ ~more(mr)
    /\ sinks' = <<Sink(arg.kind, MapV(arg.kind, local.mm))>>
    /\ pc' = "done"
    /\ UNCHANGED <<arg, r, mr, wr, err, null, calls, local>>

NextMap ==
    \/ NewMapReader
    \/ MapNext
    \/ MapReturn

SpecMap == InitMap /\ [][NextMap]_vars

\* The bytes of the caller's reader consumed by the calls of next so far:
\* those after the size field and the count.
ConsumedByNext == r.off - (IF arg.bytes[1] = typeCodeMap8 THEN 3 ELSE 6)

\* C1: once newMapReader has read a header declaring size n, the calls of
\* next made by a map decoder never consume more than n bytes of the
\* caller's reader.
C1_FencedBySize ==
    (arg.op = "map" /\ r.limited) => ConsumedByNext <= r.limit

-----------------------------------------------------------------------------
(* The encoders on a writer that never fails, and the decoders on what    *)
(* they wrote                                                             *)

\* The longest short string, the longest long string, the longest
\* composite and the most pairs of a small map.
MaxShort == 2
MaxLong == 257
MaxCFields == 3
MaxPairs == 2

\* n times the byte b.
Rep(b, n) == [i \in 1..n |-> b]

\* Byte strings of at most n bytes: ASCII, a two-byte character's halves,
\* and a byte no UTF-8 string holds.
RECURSIVE ShortStrings(_)
ShortStrings(n) ==
    IF n = 0 THEN {<<>>}
    ELSE ShortStrings(n - 1) \cup {Append(s, b) : s \in ShortStrings(n - 1), b \in {97, 195, 169, 255}}

\* Byte strings around the length where the 8-bit form ends.
LongStrings ==
    {Rep(97, n) : n \in 254..MaxLong} \cup {Rep(97, 254) \o <<195, 169>>}

Strings == ShortStrings(MaxShort) \cup LongStrings

\* The symbols of the arrays: empty, short, of the lengths where the array
\* and the symbol pass to the 32-bit form, and one that is not UTF-8.
ArraySymbols ==
    {<<>>, <<97>>, <<98, 99>>, <<255>>}
    \cup {Rep(97, n) : n \in {126, 127, MaxUint8, MaxUint8 + 1}}

\* Arrays of one, two and three symbols.
SymbolArrays ==
    {<<a>> : a \in ArraySymbols}
    \cup {<<a, b>> : a, b \in ArraySymbols}
    \cup {<<a, b, a>> : a, b \in {<<>>, <<97>>, Rep(97, MaxUint8 + 1)}}

\* The values marshal is called with: Symbols around the length where the
\* 8-bit form ends, a value of each supported type, and an int.
MarshalValues ==
    {StrV("Symbol", Rep(97, n)) : n \in {0, 1, 255, 256}}
    \cup { BoolV(TRUE), BoolV(FALSE),
           IntV("uint64", 0), IntV("uint64", 300),
           IntV("uint32", 0), IntV("uint32", 70000),
           IntV("*uint32", 5), IntV("nil *uint32", 0),
           IntV("uint16", 258), IntV("uint8", 7),
           MapV("symbols", <<>>), MapV("symbols", << <<97>> >>),
           MapV("symbols", << <<97>>, Rep(98, 256) >>), MapV("symbols", << <<255>> >>),
           StrV("string", <<97>>), StrV("string", <<255>>), StrV("bytes", <<0>>),
           IntV("milliseconds", 1500),
           IntV("int", 1) }
    \cup {MapV("symbols", ss) : ss \in SymbolArrays}

\* The Go type unmarshal is given a pointer to, for a marshalled value.
SinkKindOf(k) == IF k \in {"*uint32", "nil *uint32"} THEN "uint32" ELSE k

\* The encoded elements writeSlice is called with.
RECURSIVE SliceFields(_)
SliceFields(n) ==
    IF n = 0 THEN {<<>>}
    ELSE SliceFields(n - 1)
         \cup {Append(s, f) : s \in SliceFields(n - 1),
                              f \in {<<typeCodeNull>>, <<typeCodeSmallUint, 1>>,
                                     Rep(97, 127), Rep(97, 128)}}

\* The fields marshalComposite is called with.
CompositeFields ==
    {marshalField(v, o) :
        v \in {IntV("uint32", 1), StrV("string", <<97>>), IntV("nil *uint32", 0),
               StrV("bytes", Rep(7, 256)), IntV("int", 1)},
        o \in BOOLEAN}

RECURSIVE CompositesOf(_)
CompositesOf(n) ==
    IF n = 0 THEN {<<>>}
    ELSE CompositesOf(n - 1) \cup {Append(s, f) : s \in CompositesOf(n - 1), f \in CompositeFields}

\* The entries of a map: a string key and a value.
MapEntries ==
    {[key |-> StrV("string", k), value |-> v] :
        k \in {<<97>>, <<98>>},
        v \in {BoolV(TRUE), StrV("string", <<120>>), IntV("uint64", 1),
               StrV("string", <<255>>), IntV("int", 1)}}

RECURSIVE MapsOf(_)
MapsOf(n) ==
    IF n = 0 THEN {<<>>}
    ELSE MapsOf(n - 1) \cup {Append(s, e) : s \in MapsOf(n - 1), e \in MapEntries}

\* A map of so many pairs that the header takes the 32-bit form.
BigMap ==
    [i \in 1..((MaxUint8 + 1) \div 2) |-> [key |-> StrV("string", <<i>>), value |-> BoolV(TRUE)]]

\* The calls of the encoders.
StringCalls ==
    {[op |-> op, v |-> v, tail |-> t] :
        op \in {"writeString", "writeBinary"}, v \in Strings, t \in {<<>>, <<65>>}}
MarshalCalls ==
    {[op |-> "marshal", v |-> v, tail |-> t] : v \in MarshalValues, t \in {<<>>, <<65>>}}
SliceCalls ==
    {[op |-> "writeSlice", isArray |-> a, of |-> typeCodeUint, fields |-> fs] :
        a \in BOOLEAN,
        fs \in SliceFields(2) \cup {[i \in 1..n |-> <<typeCodeNull>>] : n \in {255, 256}}}
CompositeCalls ==
    {[op |-> "marshalComposite", code |-> c, fields |-> fs] :
        c \in {typeCodeOpen, typeCodeEnd}, fs \in CompositesOf(MaxCFields)}
MapCalls ==
    {[op |-> "writeMap", entries |-> es, kind |-> k] :
        es \in MapsOf(MaxPairs) \cup {BigMap},
        k \in {"mapAnyAny", "mapStringAny", "mapSymbolAny"}}

\* local.prior is what the writer held at first, local.mark what it held
\* when the operation was called.
InitCodec ==
    /\ pc = "start"
    /\ \/ arg \in StringCalls
       \/ arg \in MarshalCalls
       \/ arg \in SliceCalls
       \/ arg \in CompositeCalls
       \/ arg \in MapCalls
    /\ wr \in {<<>>, <<9>>}
    /\ local = [i |-> 0, mark |-> wr, prior |-> wr]
    /\ r = Buffer(<<>>)
    /\ mr = NoMapReader
    /\ sinks = <<>>
    /\ err = ""
    /\ null = FALSE
    /\ calls = <<>>

\* What the writer was given since Init.
Emitted == SubSeq(wr, Len(local.prior) + 1, Len(wr))

Encoded(res) ==
    /\ wr' = res.wr
    /\ err' = res.err
    /\ pc' = IF res.err # "" THEN "failed" ELSE "encoded"

WriteString ==
    /\ pc = "start"
    /\ arg.op = "writeString"
    /\ Encoded(writeString(wr, arg.v))
    /\ UNCHANGED <<arg, r, mr, null, sinks, calls, local>>

WriteBinary ==
    /\ pc = "start"
    /\ arg.op = "writeBinary"
    /\ Encoded(writeBinary(wr, arg.v))
    /\ UNCHANGED <<arg, r, mr, null, sinks, calls, local>>

Marshal ==
    /\ pc = "start"
    /\ arg.op = "marshal"
    /\ Encoded(marshal(wr, arg.v))
    /\ UNCHANGED <<arg, r, mr, null, sinks, calls, local>>

WriteSlice ==
    /\ pc = "start"
    /\ arg.op = "writeSlice"
    /\ Encoded(writeSlice(wr, arg.isArray, arg.of, arg.fields))
    /\ UNCHANGED <<arg, r, mr, null, sinks, calls, local>>

MarshalComposite ==
    /\ pc = "start"
    /\ arg.op = "marshalComposite"
    /\ Encoded(marshalComposite(wr, arg.code, arg.fields))
    /\ UNCHANGED <<arg, r, mr, null, sinks, calls, local>>

WriteMapHeader ==
    /\ pc = "start"
    /\ arg.op = "writeMap"
    /\ LET res == writeMapHeader(wr, 2 * Len(arg.entries))
       IN  /\ wr' = res.wr
           /\ err' = res.err
           /\ pc' = IF res.err # "" THEN "failed" ELSE "elements"
           /\ local' = [local EXCEPT !.i = 1, !.mark = res.wr]
    /\ UNCHANGED <<arg, r, mr, null, sinks, calls>>

WriteMapElement ==
    /\ pc = "elements"
    /\ local.i <= Len(arg.entries)
    /\ LET res == writeMapElement(wr, arg.entries[local.i].key, arg.entries[local.i].value)
       IN  /\ wr' = res.wr
           /\ err' = res.err
           /\ pc' = IF res.err # "" THEN "failed" ELSE "elements"
           /\ local' = [local EXCEPT !.i = @ + 1, !.mark = wr]
    /\ UNCHANGED <<arg, r, mr, null, sinks, calls>>

MapWritten ==
    /\ pc = "elements"
    /\ local.i > Len(arg.entries)
    /\ pc' = "encoded"
    /\ UNCHANGED <<arg, r, mr, wr, err, null, sinks, calls, local>>

Decoded(x, kind, v, e) ==
    /\ r' = x
    /\ sinks' = <<Sink(kind, v)>>
    /\ err' = e
    /\ pc' = "done"

\* readString on what writeString wrote, followed by the rest of the frame.
ReadString ==
    /\ pc = "encoded"
    /\ arg.op = "writeString"
    /\ LET res == readString(Buffer(Emitted \o arg.tail))
       IN  Decoded(res.r, "string", StrV("string", res.v), res.err)
    /\ UNCHANGED <<arg, mr, wr, null, calls, local>>

ReadBinary ==
    /\ pc = "encoded"
    /\ arg.op = "writeBinary"
    /\ LET res == readBinary(Buffer(Emitted \o arg.tail))
       IN  Decoded(res.r, "bytes", StrV("bytes", res.v), res.err)
    /\ UNCHANGED <<arg, mr, wr, null, calls, local>>

\* unmarshal, into a pointer to the type of the value, of what marshal wrote.
UnmarshalMarshalled ==
    /\ pc = "encoded"
    /\ arg.op = "marshal"
    /\ LET res == unmarshal(Buffer(Emitted \o arg.tail),
                            Sink(SinkKindOf(arg.v.k), Prior(SinkKindOf(arg.v.k))))
       IN  /\ Decoded(res.r, res.sink.kind, res.sink.val, res.err)
           /\ null' = res.null
    /\ UNCHANGED <<arg, mr, wr, calls, local>>

\* A map decoder on what writeMapHeader and writeMapElement wrote.
UnmarshalMap ==
    /\ pc = "encoded"
    /\ arg.op = "writeMap"
    /\ LET res == unmarshal(Buffer(Emitted), Sink(arg.kind, Prior(arg.kind)))
       IN  /\ Decoded(res.r, res.sink.kind, res.sink.val, res.err)
           /\ null' = res.null
    /\ UNCHANGED <<arg, mr, wr, calls, local>>

\* writeSlice and marshalComposite returned nil.
Return ==
    /\ pc = "encoded"
    /\ arg.op \in {"writeSlice", "marshalComposite"}
    /\ pc' = "done"
    /\ UNCHANGED <<arg, r, mr, wr, err, null, sinks, calls, local>>

NextCodec ==
    \/ WriteString
    \/ WriteBinary
    \/ Marshal
    \/ WriteSlice
    \/ MarshalComposite
    \/ WriteMapHeader
    \/ WriteMapElement
    \/ MapWritten
    \/ ReadString
    \/ ReadBinary
    \/ UnmarshalMarshalled
    \/ UnmarshalMap
    \/ Return

SpecCodec == InitCodec /\ [][NextCodec]_vars


\* The map a decoder is expected to return for the entries written: each
\* key with the value written last for it.
RECURSIVE EntriesMap(_, _)
EntriesMap(es, kind) ==
    IF es = <<>> THEN <<>>
    ELSE MapSet(EntriesMap(SubSeq(es, 1, Len(es) - 1), kind),
                IF kind = "mapAnyAny" THEN es[Len(es)].key ELSE es[Len(es)].key.s,
                es[Len(es)].value)

\* C4: the bytes of writeMapHeader(2k) followed by writeMapElement for each
\* of k entries with string keys and supported values, given to a map
\* decoder, yield the same k key/value pairs.
C4_MapRoundTrip ==
    (pc = "done" /\ arg.op = "writeMap") =>
        /\ err = ""
        /\ sinks[1].val = MapV(arg.kind, EntriesMap(arg.entries, arg.kind))

\* C5: marshal of an ASCII Symbol of length 0, 1, 255 or 256 followed by
\* unmarshal into a *Symbol yields the Symbol.
C5_SymbolRoundTrip ==
    (arg.op = "marshal" /\ arg.v.k = "Symbol") =>
        /\ pc # "failed"
        /\ pc = "done" => (err = "" /\ sinks[1].val = arg.v)

\* C6: for every valid UTF-8 string (every byte buffer) v, writeString
\* (writeBinary) emits the code Str8 (Vbin8) when len(v) < 256 and Str32
\* (Vbin32) when len(v) >= 256, and readString (readBinary) on the output
\* returns v and consumes exactly the emitted bytes.
C6_StringBinaryRoundTrip ==
    (/\ arg.op \in {"writeString", "writeBinary"}
     /\ arg.op = "writeString" => ValidString(arg.v)
     /\ pc # "start") =>
        /\ pc # "failed"
        /\ wr = local.prior \o Emitted
        /\ Emitted[1] = IF arg.op = "writeString"
                        THEN (IF Len(arg.v) < 256 THEN typeCodeStr8 ELSE typeCodeStr32)
                        ELSE (IF Len(arg.v) < 256 THEN typeCodeVbin8 ELSE typeCodeVbin32)
        /\ pc = "done" =>
                /\ err = ""
                /\ sinks[1].val.s = arg.v
                /\ r.off = Len(Emitted)
                /\ r.buf = Emitted \o arg.tail

C6_Witness ==
    /\ pc = "done"
    /\ arg.op = "writeString"
    /\ Len(arg.v) = 256
    /\ \E i \in 1..Len(arg.v) : arg.v[i] > 127
    /\ arg.tail # <<>>
    /\ sinks[1].val.s = arg.v

C6_WitnessBinary ==
    /\ pc = "done"
    /\ arg.op = "writeBinary"
    /\ Len(arg.v) \in {255, 256}
    /\ arg.tail # <<>>
    /\ sinks[1].val.s = arg.v

\* The number of fields up to the last one that is not omitted.
LastSet(fields) ==
    IF \A i \in 1..Len(fields) : fields[i].omit THEN 0
    ELSE CHOOSE i \in 1..Len(fields) :
            /\ ~fields[i].omit
            /\ \A j \in (i + 1)..Len(fields) : fields[j].omit

\* The elements expected on the wire: Null for an omitted field, its
\* marshalled bytes for another.
ExpectedElements(fields) ==
    [i \in 1..LastSet(fields) |->
        IF fields[i].omit THEN <<typeCodeNull>> ELSE marshal(<<>>, fields[i].value).wr]

\* The count and the elements of an encoded list: those after the code, the
\* size and the count, which take a byte each in the 8-bit form and four
\* bytes each in the 32-bit form.
ListCount(bs) ==
    CASE bs[1] = typeCodeList0 -> 0
      [] bs[1] = typeCodeList8 -> bs[3]
      [] bs[1] = typeCodeList32 -> BigEndian(SubSeq(bs, 6, 9))
ListElements(bs) ==
    CASE bs[1] = typeCodeList0 -> SubSeq(bs, 2, Len(bs))
      [] bs[1] = typeCodeList8 -> SubSeq(bs, 4, Len(bs))
      [] bs[1] = typeCodeList32 -> SubSeq(bs, 10, Len(bs))

\* C7: marshalComposite emits 0x00, SmallUlong, the descriptor code, then a
\* list of exactly lastSetIdx+1 elements: Null for each omitted field below
\* lastSetIdx, its marshalled bytes for each field that is not omitted, and
\* nothing for the fields after lastSetIdx; when every field is omitted or
\* there is none, the list is the single byte List0.
C7_CompositeTrimming ==
    (arg.op = "marshalComposite" /\ pc \in {"encoded", "done"}) =>
        /\ SubSeq(Emitted, 1, 3) = <<0, typeCodeSmallUlong, arg.code>>
        /\ LET list == SubSeq(Emitted, 4, Len(Emitted))
           IN  /\ list[1] \in {typeCodeList0, typeCodeList8, typeCodeList32}
               /\ list[1] = typeCodeList0 <=> LastSet(arg.fields) = 0
               /\ LastSet(arg.fields) = 0 => list = <<typeCodeList0>>
               /\ ListCount(list) = LastSet(arg.fields)
               /\ ListElements(list) = Concat(ExpectedElements(arg.fields))

C7_Witness ==
    /\ arg.op = "marshalComposite"
    /\ pc = "done"
    /\ Len(arg.fields) = 3
    /\ ~arg.fields[1].omit
    /\ arg.fields[2].omit
    /\ ~arg.fields[3].omit
    /\ Emitted[4] = typeCodeList8

C7_WitnessTrimmed ==
    /\ arg.op = "marshalComposite"
    /\ pc = "done"
    /\ Len(arg.fields) = 3
    /\ arg.fields[1].omit
    /\ ~arg.fields[2].omit
    /\ arg.fields[3].omit
    /\ ListCount(SubSeq(Emitted, 4, Len(Emitted))) = 2

C7_WitnessEmpty ==
    /\ arg.op = "marshalComposite"
    /\ pc = "done"
    /\ arg.code = typeCodeEnd
    /\ Emitted = <<0, typeCodeSmallUlong, typeCodeEnd, typeCodeList0>>

\* C10: when an encode operation returns an error, the writer holds what it
\* held when the operation was called.
C10_NoPartialWrite ==
    pc = "failed" => wr = local.mark

-----------------------------------------------------------------------------
(* The readers of single values on a byte stream *)

\* The largest millisecond count enumerated one by one, and the longest
\* rest of the frame after a value.
MaxMillis == 1200
MaxTail == 4

\* The 8 big-endian bytes of the int64 m (two's complement).
Int64Bytes(m) ==
    IF m >= 0 THEN PutBigEndian(m, 8)
    ELSE [i \in 1..8 |-> 255 - PutBigEndian(-m - 1, 8)[i]]

\* Millisecond counts: those around the epoch, and a day and a fortnight
\* either side of it.
Millis ==
    (-MaxMillis..MaxMillis) \cup {-1209600000, -86400000, 86400000, 1209600000}

\* What follows a value in the frame.
Tails == {[i \in 1..n |-> 64 + i] : n \in 0..MaxTail}

TimestampCalls ==
    {[op |-> "readTimestamp", m |-> m, bytes |-> <<typeCodeTimestamp>> \o Int64Bytes(m) \o t] :
        m \in Millis, t \in Tails}

\* The number of bytes that follow an unsigned type code.
UintWidth(code) ==
    CASE code \in {typeCodeUint0, typeCodeUlong0} -> 0
      [] code \in {typeCodeUbyte, typeCodeSmallUint, typeCodeSmallUlong} -> 1
      [] code = typeCodeUshort -> 2
      [] code = typeCodeUint -> 4
      [] code = typeCodeUlong -> 8

UintCodes ==
    {typeCodeUint0, typeCodeUlong0, typeCodeUbyte, typeCodeSmallUint, typeCodeSmallUlong,
     typeCodeUshort, typeCodeUint, typeCodeUlong}

\* The unsigned values of w bytes on the wire (those below 2^31).
UintValues(w) ==
    CASE w = 0 -> {0}
      [] w = 1 -> {0, 1, 42, 255}
      [] w = 2 -> {0, 42, 255, 256, 65535}
      [] OTHER -> {0, 42, 256, 65536, 16777221, 2147483647}

\* The header of an enclosing map whose key or value the reader is at: the
\* reader is then the limitReader newMapReader returns.
MapPrefixes == {<<>>, <<typeCodeMap8, 0, 2>>, <<typeCodeMap8, 1, 2>>}

UintCalls ==
    {[op |-> "readUint", code |-> c, v |-> v, prefix |-> p, tail |-> t,
      bytes |-> p \o <<c>> \o PutBigEndian(v, UintWidth(c)) \o t] :
        c \in UintCodes, v \in UNION {UintValues(w) : w \in {0, 1, 2, 4}},
        p \in MapPrefixes, t \in Tails}

\* A variable-length value: the code, the declared length n in one or four
\* bytes, and what is left of the frame.
VariableCalls ==
    {[op |-> "readVariableType", of |-> c, n |-> n, prefix |-> p, rest |-> t,
      bytes |-> p \o <<c>>
                \o PutBigEndian(n, IF c \in {typeCodeVbin8, typeCodeStr8, typeCodeSym8}
                                    THEN 1 ELSE 4)
                \o t] :
        c \in {typeCodeVbin8, typeCodeStr8, typeCodeSym8,
                typeCodeVbin32, typeCodeStr32, typeCodeSym32},
        n \in (0..(MaxTail + 1)) \cup {10, 255},
        p \in MapPrefixes, t \in Tails}

\* The reader a read function is given: the frame's buffer, or the
\* limitReader of the map the value is in.
ReaderAt(bytes, prefix) ==
    IF prefix = <<>> THEN Buffer(bytes) ELSE newMapReader(Buffer(bytes)).r

InitScalar ==
    /\ pc = "start"
    /\ \/ /\ arg \in TimestampCalls
          /\ r = Buffer(arg.bytes)
       \/ /\ arg \in UintCalls
          /\ arg.v \in UintValues(UintWidth(arg.code))
          /\ r = ReaderAt(arg.bytes, arg.prefix)
       \/ /\ arg \in VariableCalls
          /\ r = ReadByte(ReaderAt(arg.bytes, arg.prefix)).r
    /\ mr = NoMapReader
    /\ wr = <<>>
    /\ sinks = <<>>
    /\ err = ""
    /\ null = FALSE
    /\ calls = <<>>
    /\ local = NoLocal

Returned(res, kind, v) ==
    /\ r' = res.r
    /\ sinks' = <<Sink(kind, v)>>
    /\ err' = res.err
    /\ pc' = "done"

ReadTimestamp ==
    /\ pc = "start"
    /\ arg.op = "readTimestamp"
    /\ LET res == readTimestamp(r)
       IN  Returned(res, "time", res.v)
    /\ UNCHANGED <<arg, mr, wr, null, calls, local>>

ReadUint ==
    /\ pc = "start"
    /\ arg.op = "readUint"
    /\ LET res == readUint(r)
       IN  Returned(res, "uint64", IntV("uint64", res.v))
    /\ UNCHANGED <<arg, mr, wr, null, calls, local>>

\* readVariableType(r, of), the type code being read already.
ReadVariableType ==
    /\ pc = "start"
    /\ arg.op = "readVariableType"
    /\ LET res == readVariableType(r, arg.of)
       IN  Returned(res, "bytes", StrV("bytes", res.v))
    /\ UNCHANGED <<arg, mr, wr, null, calls, local>>

NextScalar ==
    \/ ReadTimestamp
    \/ ReadUint
    \/ ReadVariableType

SpecScalar == InitScalar /\ [][NextScalar]_vars

-----------------------------------------------------------------------------
(* marshalComposite in two goroutines, each on a writer of its own, with  *)
(* the scratch buffers of bufPool                                         *)

\* The buffers there can be at a time.
MaxBufs == 8

Procs == {1, 2}

\* A marshaler that calls marshalComposite with the code and the fields.
CompV(code, fields) == Val("composite", code, 0, <<>>, fields)

\* The composites marshalled: plain fields, an omitted one, a symbol array,
\* a composite in a composite, a symbol array in a composite in a
\* composite, and fields that marshal refuses.
PoolCalls ==
    << CompV(typeCodeOpen, <<marshalField(IntV("uint32", 1), FALSE),
                             marshalField(StrV("string", <<97>>), FALSE)>>),
       CompV(typeCodeEnd, <<marshalField(MapV("symbols", << <<97>>, <<98, 99>> >>), FALSE),
                            marshalField(IntV("uint8", 7), TRUE),
                            marshalField(IntV("uint8", 7), FALSE)>>),
       CompV(typeCodeOpen,
             <<marshalField(CompV(typeCodeEnd, <<marshalField(BoolV(TRUE), FALSE)>>), FALSE),
               marshalField(IntV("uint32", 0), FALSE)>>),
       CompV(typeCodeOpen,
             <<marshalField(
                 CompV(typeCodeEnd,
                       <<marshalField(MapV("symbols", << <<97>> >>), FALSE)>>), FALSE)>>),
       CompV(typeCodeEnd, <<marshalField(IntV("uint8", 7), FALSE),
                            marshalField(StrV("string", <<255>>), FALSE)>>),
       CompV(typeCodeOpen, <<marshalField(MapV("symbols", << <<97>>, <<255>> >>), FALSE)>>) >>

\* A call of marshalComposite or of writeSymbolArray that has not
\* acquired its buffer yet: v holds the code and the fields, or the
\* symbols; raw is rawFields, or elems.
Frame(op, v) ==
    [op |-> op, v |-> v, i |-> 1,
     raw |-> IF op = "marshalComposite" THEN [j \in 1..Len(v.m) |-> <<>>] ELSE <<>>,
     last |-> -1, buf |-> 0, pc |-> "acquire", err |-> ""]

Depth(p) == Len(local.stack[p])
Top(p) == local.stack[p][Depth(p)]
WithTop(l, p, f) == [l EXCEPT !.stack[p][Len(l.stack[p])] = f]

\* The buffers the running calls hold.
Held(l) ==
    UNION {{l.stack[p][d].buf : d \in 1..Len(l.stack[p])} : p \in Procs} \ {0}

\* What bufPool.New returns: a buffer that no call holds and that is not in
\* the pool.
Fresh(l) ==
    LET free == (1..MaxBufs) \ (l.pool \cup Held(l))
    IN  IF free = {} THEN {} ELSE {CHOOSE b \in free : \A c \in free : b <= c}

\* A Get that leaves the buffer in the pool.
poolGet_Mut(l) == {[buf |-> b, pool |-> l.pool] : b \in l.pool \cup Fresh(l)}

\* What bufPool.Get may return, and the pool after it: a buffer of the
\* pool, taken out of it, or a new one.
poolGet(l) == {[buf |-> b, pool |-> l.pool \ {b}] : b \in l.pool \cup Fresh(l)}

InitPool ==
    /\ pc = [p \in Procs |-> "running"]
    /\ \E i, j \in 1..Len(PoolCalls) : arg = <<PoolCalls[i], PoolCalls[j]>>
    /\ wr = [p \in Procs |-> <<>>]
    /\ err = [p \in Procs |-> ""]
    /\ local = [pool |-> {},
                bufs |-> [b \in 1..MaxBufs |-> <<>>],
                stack |-> [p \in Procs |-> <<Frame("marshalComposite", arg[p])>>]]
    /\ r = Buffer(<<>>)
    /\ mr = NoMapReader
    /\ sinks = <<>>
    /\ null = FALSE
    /\ calls = <<>>

\* buf := bufPool.Get().(*bytes.Buffer); defer bufPool.Put(buf); buf.Reset()
PoolGet(p) ==
    /\ Depth(p) > 0
    /\ Top(p).op = "marshalComposite"
    /\ Top(p).pc = "acquire"
    /\ \E g \in poolGet(local) :
            local' = WithTop([local EXCEPT !.pool = g.pool, !.bufs[g.buf] = <<>>], p,
                             [Top(p) EXCEPT !.buf = g.buf, !.pc = "loop"])
    /\ UNCHANGED <<pc, arg, r, mr, wr, err, null, sinks, calls>>

\* buf := bufPool.New().(*bytes.Buffer); defer bufPool.Put(buf)
PoolNew(p) ==
    /\ Depth(p) > 0
    /\ Top(p).op = "writeSymbolArray"
    /\ Top(p).pc = "acquire"
    /\ \E b \in Fresh(local) :
            local' = WithTop([local EXCEPT !.bufs[b] = <<>>], p,
                             [Top(p) EXCEPT !.buf = b, !.pc = "loop"])
    /\ UNCHANGED <<pc, arg, r, mr, wr, err, null, sinks, calls>>

\* The first loop of marshalComposite at field i: an omitted field is
\* skipped, a marshaler or a []Symbol is called with buf as its writer,
\* another value is written to buf.
MarshalField(p) ==
    /\ Depth(p) > 0
    /\ Top(p).op = "marshalComposite"
    /\ Top(p).pc = "loop"
    /\ Top(p).i <= Len(Top(p).v.m)
    /\ LET f == Top(p).v.m[Top(p).i]
           res == marshal(local.bufs[Top(p).buf], f.value)
       IN  local' =
             IF f.omit THEN WithTop(local, p, [Top(p) EXCEPT !.i = @ + 1])
             ELSE IF f.value.k \in {"composite", "symbols"}
             THEN [local EXCEPT
                     !.stack[p] =
                        Append([@ EXCEPT ![Depth(p)].pc = "call"],
                               Frame(IF f.value.k = "composite" THEN "marshalComposite"
                                     ELSE "writeSymbolArray", f.value))]
             ELSE WithTop([local EXCEPT !.bufs[Top(p).buf] = res.wr], p,
                          [Top(p) EXCEPT !.err = res.err,
                                         !.pc = IF res.err # "" THEN "release" ELSE "copy"])
    /\ UNCHANGED <<pc, arg, r, mr, wr, err, null, sinks, calls>>

\* rawFields[i] = append([]byte(nil), buf.Bytes()...); buf.Reset();
\* lastSetIdx = i
CopyField(p) ==
    /\ Depth(p) > 0
    /\ Top(p).op = "marshalComposite"
    /\ Top(p).pc = "copy"
    /\ local' = WithTop([local EXCEPT !.bufs[Top(p).buf] = <<>>], p,
                        [Top(p) EXCEPT !.raw[Top(p).i] = local.bufs[Top(p).buf],
                                       !.last = Top(p).i - 1,
                                       !.i = @ + 1,
                                       !.pc = "loop"])
    /\ UNCHANGED <<pc, arg, r, mr, wr, err, null, sinks, calls>>

\* The element type code writeSymbolArray chooses.
ofType(symbols) ==
    IF \E i \in 1..Len(symbols) : Len(symbols[i]) > MaxUint8
    THEN typeCodeSym32 ELSE typeCodeSym8

\* buf.Reset(); err := writeSymbol(buf, symbol, ofType)
WriteSymbol(p) ==
    /\ Depth(p) > 0
    /\ Top(p).op = "writeSymbolArray"
    /\ Top(p).pc = "loop"
    /\ Top(p).i <= Len(Top(p).v.m)
    /\ LET res == writeSymbol(<<>>, Top(p).v.m[Top(p).i], ofType(Top(p).v.m))
       IN  local' = WithTop([local EXCEPT !.bufs[Top(p).buf] = res.wr], p,
                            [Top(p) EXCEPT !.err = res.err,
                                           !.pc = IF res.err # "" THEN "release" ELSE "copy"])
    /\ UNCHANGED <<pc, arg, r, mr, wr, err, null, sinks, calls>>

\* elems = append(elems, append([]byte(nil), buf.Bytes()...))
CopyElem(p) ==
    /\ Depth(p) > 0
    /\ Top(p).op = "writeSymbolArray"
    /\ Top(p).pc = "copy"
    /\ local' = WithTop(local, p,
                        [Top(p) EXCEPT !.raw = Append(@, local.bufs[Top(p).buf]),
                                       !.i = @ + 1,
                                       !.pc = "loop"])
    /\ UNCHANGED <<pc, arg, r, mr, wr, err, null, sinks, calls>>

\* The writer of the running call of p: the writer of the goroutine, or the
\* buffer of the marshalComposite that called it.
WriterOf(p) ==
    IF Depth(p) = 1 THEN wr[p] ELSE local.bufs[local.stack[p][Depth(p) - 1].buf]

\* The running call of p has written res.wr to its writer and returns
\* res.err.
Written(p, res) ==
    LET top == [Top(p) EXCEPT !.pc = "release", !.err = res.err]
    IN  IF Depth(p) = 1
        THEN /\ wr' = [wr EXCEPT ![p] = res.wr]
             /\ local' = WithTop(local, p, top)
        ELSE /\ wr' = wr
             /\ local' = WithTop([local EXCEPT
                                    !.bufs[local.stack[p][Depth(p) - 1].buf] = res.wr],
                                 p, top)

\* The end of marshalComposite: null at the nil indexes, the header and
\* the list of the fields.
WriteFields(p) ==
    /\ Depth(p) > 0
    /\ Top(p).op = "marshalComposite"
    /\ Top(p).pc = "loop"
    /\ Top(p).i > Len(Top(p).v.m)
    /\ Written(p, writeList(WriterOf(p) \o <<0, typeCodeSmallUlong, Top(p).v.n % 256>>,
                            SubSeq(writeNulls(Top(p).raw, Top(p).last), 1,
                                   Top(p).last + 1)))
    /\ UNCHANGED <<pc, arg, r, mr, err, null, sinks, calls>>

\* return writeArray(w, ofType, elems...)
WriteElems(p) ==
    /\ Depth(p) > 0
    /\ Top(p).op = "writeSymbolArray"
    /\ Top(p).pc = "loop"
    /\ Top(p).i > Len(Top(p).v.m)
    /\ Written(p, writeArray(WriterOf(p), ofType(Top(p).v.m), Top(p).raw))
    /\ UNCHANGED <<pc, arg, r, mr, err, null, sinks, calls>>

\* The deferred bufPool.Put(buf) and the return to the caller: to the loop
\* of the marshalComposite that called, or out of the goroutine.
PoolPut(p) ==
    /\ Depth(p) > 0
    /\ Top(p).pc = "release"
    /\ IF Depth(p) = 1
       THEN /\ local' = [local EXCEPT !.pool = @ \cup {Top(p).buf}, !.stack[p] = <<>>]
            /\ err' = [err EXCEPT ![p] = Top(p).err]
            /\ pc' = [pc EXCEPT ![p] = "done"]
       ELSE /\ local' =
                [local EXCEPT
                    !.pool = @ \cup {Top(p).buf},
                    !.stack[p] =
                        [SubSeq(@, 1, Depth(p) - 1) EXCEPT
                            ![Depth(p) - 1].err = Top(p).err,
                            ![Depth(p) - 1].pc =
                                IF Top(p).err # "" THEN "release" ELSE "copy"]]
            /\ UNCHANGED <<pc, err>>
    /\ UNCHANGED <<arg, r, mr, wr, null, sinks, calls>>

\* The garbage collector empties the pool.
PoolDrop ==
    /\ local.pool # {}
    /\ \E p \in Procs : pc[p] = "running"
    /\ local' = [local EXCEPT
                    !.pool = {},
                    !.bufs = [b \in 1..MaxBufs |-> IF b \in local.pool THEN <<>> ELSE @[b]]]
    /\ UNCHANGED <<pc, arg, r, mr, wr, err, null, sinks, calls>>

NextPool ==
    \/ \E p \in Procs : PoolGet(p)
    \/ \E p \in Procs : PoolNew(p)
    \/ \E p \in Procs : MarshalField(p)
    \/ \E p \in Procs : CopyField(p)
    \/ \E p \in Procs : WriteSymbol(p)
    \/ \E p \in Procs : CopyElem(p)
    \/ \E p \in Procs : WriteFields(p)
    \/ \E p \in Procs : WriteElems(p)
    \/ \E p \in Procs : PoolPut(p)
    \/ PoolDrop

SpecPool == InitPool /\ [][NextPool]_vars

\* C11: for every signed 64-bit millisecond count m after the Timestamp
\* code, readTimestamp returns the instant m milliseconds from the Unix
\* epoch: seconds * 1000 + nanoseconds / 1000000 of the result is m.
C11_TimestampKeepsSign ==
    (pc = "done" /\ arg.op = "readTimestamp") =>
        /\ err = ""
        /\ sinks[1].val.n * 1000 + sinks[1].val.ns \div 1000000 = arg.m


\* C17: for every unsigned type code followed by its w bytes (w = 0 for
\* Uint0/Ulong0, 1 for Ubyte/SmallUint/SmallUlong, 2 for Ushort, 4 for Uint,
\* 8 for Ulong), readUint on the frame's buffer returns the big-endian value
\* of the w bytes and consumes exactly the code and the w bytes; on any
\* reader, when it returns no error it has done so.
C17_UintSelfDelimiting ==
    (pc = "done" /\ arg.op = "readUint") =>
        /\ arg.prefix = <<>> => err = ""
        /\ err = "" =>
            /\ sinks[1].val.n = arg.v
            /\ r.off = Len(arg.prefix) + 1 + UintWidth(arg.code)
            /\ SubSeq(r.buf, r.off + 1, Len(r.buf)) = arg.tail

C17_Witness ==
    /\ pc = "done"
    /\ arg.op = "readUint"
    /\ arg.code = typeCodeUint
    /\ arg.v = 42
    /\ arg.tail # <<>>
    /\ arg.prefix = <<>>
    /\ err = ""
    /\ sinks[1].val.n = 42

C17_WitnessZero ==
    /\ pc = "done"
    /\ arg.op = "readUint"
    /\ arg.code = typeCodeUint0
    /\ arg.tail # <<>>
    /\ r.off = 1
    /\ err = ""


\* The reader once readVariableType has read the length field.
LengthRead ==
    LET r0 == ReadByte(ReaderAt(arg.bytes, arg.prefix)).r
    IN  IF arg.of \in {typeCodeVbin8, typeCodeStr8, typeCodeSym8}
        THEN ReadByte(r0) ELSE BinaryRead(r0, 4)

\* The reader is the bounded reader of a map and has reached its limit.
LimitReached == LengthRead.r.limited /\ LengthRead.r.read >= LengthRead.r.limit

\* The declared length is above what is left: invalid length, and nothing
\* of the payload consumed.
TooLongRefused ==
    Len(arg.rest) < arg.n => (err = errInvalidLength /\ r.off = LengthRead.r.off)

\* The next n bytes are returned and the reader is n bytes further.
PayloadReturned ==
    /\ err = ""
    /\ sinks[1].val.s = SubSeq(arg.rest, 1, arg.n)
    /\ r.off = LengthRead.r.off + arg.n

C12_WitnessRead ==
    /\ pc = "done"
    /\ arg.op = "readVariableType"
    /\ arg.of = typeCodeSym32
    /\ arg.n = 3
    /\ Len(arg.rest) = 4
    /\ err = ""
    /\ sinks[1].val.s = <<65, 66, 67>>


\* The declared size of an encoded array or list and the number of bytes
\* that follow its size field.
DeclaredSize(bs) ==
    IF bs[1] \in {typeCodeArray8, typeCodeList8} THEN bs[2] ELSE BigEndian(SubSeq(bs, 2, 5))
AfterSizeField(bs) ==
    IF bs[1] \in {typeCodeArray8, typeCodeList8} THEN Len(bs) - 2 ELSE Len(bs) - 5

\* C13: for every non-empty array written by writeArray/writeSlice, in the
\* 8-bit and in the 32-bit form, the declared size is the number of bytes
\* that follow the size field: the count, the element type code and the
\* encoded elements.
C13_ArraySizeCoversArray ==
    (arg.op = "writeSlice" /\ arg.isArray /\ pc \in {"encoded", "done"}) =>
        DeclaredSize(Emitted) = AfterSizeField(Emitted)


\* The number of bytes of the fields of a writeSlice call.
Payload == Len(Concat(arg.fields))

\* C14: writeList emits List0 iff there is no field, the 8-bit form iff
\* 0 < count < 256 and payload < 256, the 32-bit form otherwise; and in the
\* 8-bit form the one-byte size field is payload + 1, without wrap-around,
\* payload = 255 included.
C14_ListSizeVariant ==
    (arg.op = "writeSlice" /\ ~arg.isArray /\ pc \in {"encoded", "done"}) =>
        /\ Emitted[1] = typeCodeList0 <=> Len(arg.fields) = 0
        /\ Emitted[1] = typeCodeList8 <=>
                (Len(arg.fields) > 0 /\ Len(arg.fields) < 256 /\ Payload < 256)
        /\ Emitted[1] = typeCodeList32 <=>
                (Len(arg.fields) > 0 /\ ~(Len(arg.fields) < 256 /\ Payload < 256))
        /\ Emitted[1] = typeCodeList8 => Emitted[2] = Payload + 1


\* The bytes of an array's header up to its element type code: the array
\* code, the size and the count.
ArrayHeader == IF Emitted[1] = typeCodeArray8 THEN 3 ELSE 9

\* The symbols as elements of an array of the element type code: the length
\* in one byte or in four, and the bytes.
SymbolElements(symbols, code) ==
    Concat([i \in 1..Len(symbols) |->
                (IF code = typeCodeSym8 THEN <<Len(symbols[i])>>
                 ELSE PutBigEndian(Len(symbols[i]), 4)) \o symbols[i]])

WidestCode(symbols) ==
    IF \E i \in 1..Len(symbols) : Len(symbols[i]) > 255
    THEN typeCodeSym32 ELSE typeCodeSym8

\* C15: for every non-empty sequence S of (valid) symbols, writeSymbolArray
\* emits Sym32 as the array's element type code iff some symbol of S is
\* longer than 255 bytes and Sym8 otherwise, every element follows it with
\* the length of that width and no type code of its own, and
\* readSymbolArray on the output returns S in order.
C15_SymbolArrayRoundTrip ==
    (/\ arg.op = "marshal"
     /\ arg.v.k = "symbols"
     /\ arg.v.m # <<>>
     /\ \A i \in 1..Len(arg.v.m) : ValidString(arg.v.m[i])
     /\ pc # "start") =>
        /\ pc # "failed"
        /\ Emitted[1] \in {typeCodeArray8, typeCodeArray32}
        /\ Emitted[ArrayHeader + 1] = WidestCode(arg.v.m)
        /\ SubSeq(Emitted, ArrayHeader + 2, Len(Emitted))
                = SymbolElements(arg.v.m, WidestCode(arg.v.m))
        /\ pc = "done" => (err = "" /\ sinks[1].val = arg.v)

\* A short and a long symbol read back from an array of Sym32 elements.
C15_Witness ==
    /\ pc = "done"
    /\ arg.op = "marshal"
    /\ arg.v.k = "symbols"
    /\ Len(arg.v.m) = 2
    /\ Len(arg.v.m[1]) = 1
    /\ Len(arg.v.m[2]) = 256
    /\ Emitted[ArrayHeader + 1] = typeCodeSym32
    /\ sinks[1].val.m = arg.v.m

\* Symbols of 126 and 127 bytes: 255 bytes of elements in an Array8.
C15_WitnessArray8 ==
    /\ pc = "done"
    /\ arg.op = "marshal"
    /\ arg.v.k = "symbols"
    /\ Len(arg.v.m) = 2
    /\ Len(arg.v.m[1]) + Len(arg.v.m[2]) = 253
    /\ Emitted[1] = typeCodeArray8
    /\ sinks[1].val.m = arg.v.m

\* One symbol of 255 bytes: Sym8 elements in an Array32.
C15_WitnessArray32 ==
    /\ pc = "done"
    /\ arg.op = "marshal"
    /\ arg.v.k = "symbols"
    /\ arg.v.m = <<Rep(97, 255)>>
    /\ Emitted[1] = typeCodeArray32
    /\ Emitted[ArrayHeader + 1] = typeCodeSym8
    /\ sinks[1].val.m = arg.v.m

\* C18: for a map header with count c, odd counts included, the loop
\* "for mr.more() { mr.next(...) }" of a map decoder never unmarshals more
\* than c values, and when it ends without an error it has called next
\* exactly pairs() = c / 2 times.
C18_MapIterationExact ==
    (arg.op = "map" /\ pc \in {"entries", "done"} /\ err = "") =>
        /\ mr.read <= mr.count
        /\ pc = "done" => local.nexts = pairs(mr)

\* The frames of the running calls.
Frames == UNION {{<<p, d>> : d \in 1..Depth(p)} : p \in Procs}

\* C16: whatever the interleaving of the marshalComposite calls of two
\* goroutines with writers of their own, and of the marshalComposite and
\* writeSymbolArray calls nested in them, no buffer is held by two calls
\* between its acquire and its release or is in the pool while held, and
\* each writer receives the bytes, and each caller the error, of its call
\* run alone.
C16_ScratchBuffersNotShared ==
    /\ \A f, g \in Frames :
            (f # g /\ local.stack[f[1]][f[2]].buf # 0)
                => local.stack[f[1]][f[2]].buf # local.stack[g[1]][g[2]].buf
    /\ \A f \in Frames : local.stack[f[1]][f[2]].buf \notin local.pool
    /\ \A p \in Procs :
            pc[p] = "done" =>
                /\ wr[p] = marshal(<<>>, arg[p]).wr
                /\ err[p] = marshal(<<>>, arg[p]).err

\* Both goroutines are in a nested call, each of the four calls holding a
\* buffer.
C16_Witness ==
    /\ \A p \in Procs : Depth(p) >= 2
    /\ \A f \in Frames : local.stack[f[1]][f[2]].buf # 0
    /\ \E p \in Procs : Top(p).op = "writeSymbolArray"
    /\ \E p \in Procs : Top(p).op = "marshalComposite"

\* A goroutine has returned from a composite with a composite in it while
\* the other holds the first buffer.
C16_WitnessDone ==
    /\ pc[1] = "done"
    /\ err[1] = ""
    /\ arg[1].m[1].value.k = "composite"
    /\ wr[1] = marshal(<<>>, arg[1]).wr
    /\ Depth(2) >= 1
    /\ Top(2).buf = 1
====
